---- MODULE Spec2Model ----
(***************************************************************************)
(* State-machine model of the response pipeline of node-steamid-resolver-ts *)
(* (src/src/utils.ts, src/src/types.ts, src/src/errors/steam-errors.ts):    *)
(* withRetry driving one operation, parseSteamXML as that operation (fetch, *)
(* pre-parse check, decode, classify, validate, vanity-URL recovery), the   *)
(* field validator hasMinimalProfileData as a pure function, and the        *)
(* sharedfile existence check validateSharedfile.                           *)
(*                                                                         *)
(* A JavaScript string is modelled as a sequence of text chunks (each chunk *)
(* a TLA+ string); String.includes is contiguous chunk-subsequence search.  *)
(* A URL or Location header is kept already split on "/" (a sequence of     *)
(* such strings), as String.split('/') would return it.                     *)
(***************************************************************************)
EXTENDS Integers, Sequences, FiniteSets, TLC

VARIABLES
    op,           \* per call: "generic" (withRetry on an arbitrary operation), "parse"
                  \* (parseSteamXML) or "sharedfile" (validateSharedfile)
    url,          \* per call: the request URL, split on "/"
    maxRetries,   \* per call: withRetry's maxRetries argument
    delay,        \* per call: withRetry's delay argument
    attempt,      \* per call: withRetry's loop counter
    pc,           \* per call: "idle" | "operation" | "fetch" | "probe" | "sleep" |
                  \* "sharedfetch" | "done" | "settled"
    lastError,    \* per call: withRetry's lastError
    outcome,      \* per call: how the returned promise settled
    invocations,  \* per call: number of times the operation was invoked
    sleeps,       \* per call: the setTimeout durations, in order
    hist,         \* per call (generic operation): outcomes of the invocations so far
    fetches,      \* per call: number of page requests issued (fetchSteamXML, validateSharedfile)
    decodes,      \* per call: number of times the current attempt invoked parseXMLToJSON
    probes,       \* per call: number of redirect probes issued
    probeAnswer,  \* per call: what the redirect probe was answered
    literals,     \* per call: number of times the request URL was parsed for the vanity name
    resp,         \* per call: the response the last fetch delivered
    profile,      \* per call: the profile object being built by the current attempt
    cand,         \* validator check: the candidate handed to hasMinimalProfileData
    verdict,      \* validator check: "none" | "valid" | "invalid"
    doc,          \* decoder check: the XML document handed to parseString
    parsed,       \* decoder check: what parseString handed to its callback
    api,          \* per call: the API function called, or "none"
    callback,     \* per call: "none" (no callback supplied), "returns" or "throws"
                  \* (what the supplied callback does when it is invoked)
    cbCalls,      \* per call: the invocations of the callback, in order
    promise       \* per call: how the promise the API function returned settled

vars == <<op, url, maxRetries, delay, attempt, pc, lastError, outcome, invocations,
          sleeps, hist, fetches, decodes, probes, probeAnswer, literals, resp,
          profile, cand, verdict, doc, parsed, api, callback, cbCalls, promise>>

decoderVars == <<doc, parsed>>

apiVars == <<api, callback, cbCalls, promise>>

callVars == <<op, url, maxRetries, delay, attempt, pc, lastError, outcome, invocations,
              sleeps, hist, fetches, decodes, probes, probeAnswer, literals,
              resp, profile>>

(***************************************************************************)
(* Bounds of the model                                                     *)
(***************************************************************************)
\* withRetry on a generic operation is explored for maxRetries in -1..MaxRetriesBound
MaxRetriesBound == 3
\* error-envelope messages have at most MaxMsgLen chunks
MaxMsgLen == 2
\* profile documents have at most MaxChildren child elements
MaxChildren == 3

(***************************************************************************)
(* Program constants                                                       *)
(***************************************************************************)
DefaultMaxRetries == 3
DefaultDelay == 1000
MinBodyLength == 10

(***************************************************************************)
(* Strings                                                                 *)
(***************************************************************************)
\* String.prototype.includes
Includes(s, pat) ==
    \E i \in 0..(Len(s) - Len(pat)) : SubSeq(s, i + 1, i + Len(pat)) = pat

\* last element of a non-empty array
LastOf(s) == s[Len(s)]

(***************************************************************************)
(* Errors (src/src/errors/steam-errors.ts)                                 *)
(***************************************************************************)
\* class SteamAPIError extends Error: message and code
SteamAPIError(message, code) ==
    [isError |-> TRUE, steam |-> TRUE, code |-> code, message |-> message]

\* a plain Error (or TypeError): an Error instance without a code
PlainError(message) ==
    [isError |-> TRUE, steam |-> FALSE, code |-> "none", message |-> message]

\* a thrown value that is no Error instance; message is String(value)
ThrownValue(text) ==
    [isError |-> FALSE, steam |-> FALSE, code |-> "none", message |-> text]

\* lastError before any failure: undefined
NoError == [isError |-> FALSE, steam |-> FALSE, code |-> "undefined", message |-> <<>>]

SteamProfileNotFoundError(identifier) ==
    SteamAPIError(<<"The specified ", "profile could not be found", ": ">> \o identifier,
                  "PROFILE_NOT_FOUND")

SteamGroupNotFoundError(identifier) ==
    SteamAPIError(<<"The specified ", "group could not be found", ": ">> \o identifier,
                  "GROUP_NOT_FOUND")

SteamEmptyResponseError(identifier) ==
    SteamAPIError(<<"Steam returned an empty response for: ">> \o identifier,
                  "EMPTY_RESPONSE")

(***************************************************************************)
(* withRetry (src/src/utils.ts 436-459)                                    *)
(***************************************************************************)
\* mutant: the delay is not scaled by the attempt number
RetryDelayConstant(d, a) == d

\* the setTimeout duration after failed attempt a: delay * attempt
RetryDelay(d, a) == d * a

\* mutant: every caught value is wrapped in a new Error
CaptureErrorWrapAll(e) == PlainError(e.message)

\* lastError = error instanceof Error ? error : new Error(String(error))
CaptureError(e) == IF e.isError THEN e ELSE PlainError(e.message)

\* mutant: the loop gives up one attempt early
IsLastAttemptEarly(a, m) == a >= m - 1

\* if (attempt === maxRetries) break
IsLastAttempt(a, m) == a = m

\* throw lastError || new Error('Unknown error occurred')
FinalError(le) == IF le.isError THEN le ELSE PlainError(<<"Unknown error occurred">>)

(***************************************************************************)
(* Values                                                                  *)
(***************************************************************************)
Fields == {"steamID64", "steamID", "onlineState", "privacyState",
           "visibilityState", "vacBanned", "tradeBanState", "isLimitedAccount",
           "customURL"}

\* a property of a decoded object: absent, an array of strings, or a bare string
Absent == [kind |-> "absent", v |-> <<>>]
Arr(items) == [kind |-> "array", v |-> items]
Str(s) == [kind |-> "string", v |-> <<s>>]

NoProfile == [f \in Fields |-> Absent]
NoUrl == <<>>

Pending == [status |-> "pending", type |-> "none", value |-> <<>>,
            data |-> NoProfile, error |-> NoError]
Returned(type, value, data) ==
    [status |-> "returned", type |-> type, value |-> value, data |-> data, error |-> NoError]
Thrown(e) ==
    [status |-> "thrown", type |-> "none", value |-> <<>>, data |-> NoProfile, error |-> e]

(***************************************************************************)
(* Inputs of the generic operation                                         *)
(***************************************************************************)
ThrowVals == { SteamAPIError(<<"HTTP 503">>, "NETWORK_ERROR"),
               PlainError(<<"boom">>),
               ThrownValue(<<"rejected with a string">>) }

OpOutcomes == [ok : {TRUE}, value : {<<"v1">>, <<"v2">>}, error : {NoError}]
              \cup [ok : {FALSE}, value : {<<>>}, error : ThrowVals]

Delays == {DefaultDelay, 250}

(***************************************************************************)
(* Decoded trees (RawXMLParseResult, src/src/types.ts 130-135) and bodies   *)
(***************************************************************************)
\* the value under a top-level key: absent, an object, or bare text
NoObject == [kind |-> "absent", obj |-> NoProfile]
ProfileObject(p) == [kind |-> "object", obj |-> p]
ProfileText == [kind |-> "text", obj |-> NoProfile]

NoEnvelope == [kind |-> "absent", error |-> Absent]
Envelope(e) == [kind |-> "object", error |-> e]
EnvelopeText == [kind |-> "text", error |-> Absent]

NoMemberList == [kind |-> "absent", groupID64 |-> <<>>]
MemberList(id) == [kind |-> "object", groupID64 |-> id]

Tree(r, p, m, o) == [response |-> r, profile |-> p, memberList |-> m, other |-> o]
EmptyTree == Tree(NoEnvelope, NoObject, NoMemberList, FALSE)

\* what xml2js hands to the callback: an error, null, or a tree
Malformed == [status |-> "malformed", tree |-> EmptyTree]
NullResult == [status |-> "null", tree |-> EmptyTree]
Parsed(t) == [status |-> "tree", tree |-> t]

\* length in characters of the text chunks the bodies are made of
ChunkLength(ch) ==
    CASE ch = "   " -> 3
      [] ch = "            " -> 12
      [] ch = "<?xml" -> 5
      [] ch = "<profile" -> 8
      [] ch = "<memberList" -> 11
      [] ch = "<html" -> 5
      [] ch = "error" -> 5
      [] ch = "Group" -> 5
      [] ch = "Not found" -> 9
      [] ch = "group could not be found" -> 24
      [] ch = "group does not exist" -> 20
      [] OTHER -> 16

RECURSIVE TextLength(_)
\* String.prototype.length
TextLength(t) == IF t = <<>> THEN 0 ELSE ChunkLength(Head(t)) + TextLength(Tail(t))

WhitespaceChunks == {"   ", "            "}

\* !xmlText.trim()
IsBlank(t) == \A i \in 1..Len(t) : t[i] \in WhitespaceChunks

(***************************************************************************)
(* Type guards (src/src/types.ts 154-221)                                  *)
(***************************************************************************)
\* JavaScript truthiness of a property value
Truthy(x) == \/ x.kind = "array"
             \/ x.kind = "string" /\ x.v[1] # <<>>

IsArray(x) == x.kind = "array"

isEmptyResponse(d) ==
    \/ d.status = "null"
    \/ /\ d.tree.response.kind = "absent"
       /\ d.tree.profile.kind = "absent"
       /\ d.tree.memberList.kind = "absent"
       /\ ~d.tree.other

isErrorResponse(d) ==
    /\ d.status = "tree"
    /\ d.tree.response.kind = "object"
    /\ d.tree.response.error.kind # "absent"

isProfileResponse(d) == d.status = "tree" /\ d.tree.profile.kind # "absent"

isGroupResponse(d) == d.status = "tree" /\ d.tree.memberList.kind # "absent"

RequiredByValidator == {"steamID64", "steamID", "onlineState", "privacyState"}

\* mutant: the validator forgets privacyState
hasMinimalProfileDataLax(p) ==
    /\ p.kind = "object"
    /\ \A f \in RequiredByValidator \ {"privacyState"} :
          Truthy(p.obj[f]) /\ IsArray(p.obj[f])

hasMinimalProfileData(p) ==
    /\ p.kind = "object"
    /\ \A f \in RequiredByValidator : Truthy(p.obj[f]) /\ IsArray(p.obj[f])

\* extractString (src/src/utils.ts 467-477): [defined, text]
extractString(x) ==
    IF x.kind = "array" /\ Len(x.v) > 0 THEN [def |-> TRUE, s |-> x.v[1]]
    ELSE IF x.kind = "string" THEN [def |-> TRUE, s |-> x.v[1]]
    ELSE [def |-> FALSE, s |-> <<>>]

(***************************************************************************)
(* URLs                                                                    *)
(***************************************************************************)
\* url.includes('steamcommunity.com/' + name + '/')
UrlHasHostPath(u, name) ==
    \E i \in 1..(Len(u) - 2) :
        /\ u[i] # <<>>
        /\ LastOf(u[i]) = "steamcommunity.com"
        /\ u[i + 1] = <<name>>

\* url.includes('/groups/') || url.includes('memberslistxml')
UrlIsGroup(u) ==
    \/ \E i \in 2..(Len(u) - 1) : u[i] = <<"groups">>
    \/ \E i \in 1..Len(u) : Includes(u[i], <<"memberslistxml">>)

RECURSIVE RemoveFirst(_, _)
\* String.prototype.replace(chunk, '')
RemoveFirst(s, ch) ==
    IF s = <<>> THEN <<>>
    ELSE IF Head(s) = ch THEN Tail(s)
    ELSE <<Head(s)>> \o RemoveFirst(Tail(s), ch)

Host == << <<"https:">>, <<>>, <<"steamcommunity.com">> >>
ProfileIdUrl == Host \o << <<"profiles">>, <<"76561198260031749", "?xml=1">> >>
VanityUrl(v) == Host \o << <<"id">>, <<v, "?xml=1">> >>
GroupUrl == Host \o << <<"groups">>, <<"3urobeatGroup">>, <<"memberslistxml", "?xml=1">> >>
SharedfileUrl == Host \o << <<"sharedfiles">>, <<"filedetails">>, <<"?id=2966606880">> >>

\* a numeric-ID URL whose query string holds a vanity URL: it contains both
\* 'steamcommunity.com/profiles/' and 'steamcommunity.com/id/'
ProfileIdUrlWithVanityQuery ==
    Host \o << <<"profiles">>, <<"76561198260031749">>, <<"?next=https:">>, <<>>,
               <<"steamcommunity.com">>, <<"id">>, <<"3urobeat", "?xml=1">> >>

\* parseSteamXML(url: string) takes any string
Urls == {ProfileIdUrl, VanityUrl("3urobeat"), GroupUrl, SharedfileUrl,
         ProfileIdUrlWithVanityQuery}

(***************************************************************************)
(* fetchSteamXML, parseXMLToJSON, resolveCustomURLFromRedirect             *)
(***************************************************************************)
Failure(e) == [k |-> "throw", error |-> e, result |-> Pending, profile |-> NoProfile,
               literal |-> 0]
Success(r, n) == [k |-> "return", error |-> NoError, result |-> r, profile |-> NoProfile,
                  literal |-> n]
NeedsProbe(p) == [k |-> "probe", error |-> NoError, result |-> Pending, profile |-> p,
                  literal |-> 0]

\* mutant: the HTTP status is not looked at
RaisedInFetchIgnoreStatus(r) ==
    IF r.kind \in {"throw", "textthrow"}
    THEN [raised |-> TRUE, error |-> r.error]
    ELSE [raised |-> FALSE, error |-> NoError]

\* what the try block of fetchSteamXML raises, lines 211-227: the value the
\* transport threw, the HTTP-status error of a non-2xx response, the value
\* the body read threw, or nothing
RaisedInFetch(r) ==
    IF r.kind = "throw"
    THEN [raised |-> TRUE, error |-> r.error]
    ELSE IF ~r.ok
    THEN [raised |-> TRUE, error |-> SteamAPIError(<<"HTTP ", "503">>, "NETWORK_ERROR")]
    ELSE IF r.kind = "textthrow"
    THEN [raised |-> TRUE, error |-> r.error]
    ELSE [raised |-> FALSE, error |-> NoError]

\* fetchSteamXML (src/src/utils.ts 207-240): the body text, or the error of
\* the catch block: a SteamAPIError as it is, anything else wrapped as
\* NETWORK_ERROR
fetchSteamXML(r) ==
    LET t == RaisedInFetch(r)
    IN  IF ~t.raised THEN [ok |-> TRUE, error |-> NoError]
        ELSE IF t.error.steam THEN [ok |-> FALSE, error |-> t.error]
        ELSE [ok |-> FALSE,
              error |-> SteamAPIError(<<"Failed to fetch data from Steam: ">> \o t.error.message,
                                      "NETWORK_ERROR")]

\* parseXMLToJSON (src/src/utils.ts 180-204)
parseXMLToJSON(body) ==
    IF body.decoded.status = "malformed"
    THEN [ok |-> FALSE,
          error |-> SteamAPIError(<<"XML parsing failed: ", "sax error">>, "PARSE_ERROR")]
    ELSE [ok |-> TRUE, error |-> NoError]

\* mutant: a trailing slash of the Location header is not dropped
resolveCustomURLFromRedirectKeepSlash(pa) ==
    IF pa.kind = "throw" \/ ~pa.hasLocation THEN [found |-> FALSE, s |-> <<>>]
    ELSE IF ~UrlHasHostPath(pa.location, "id") THEN [found |-> FALSE, s |-> <<>>]
    ELSE LET customURL == LastOf(pa.location)
         IN  IF customURL # <<>> THEN [found |-> TRUE, s |-> customURL]
             ELSE [found |-> FALSE, s |-> <<>>]

\* resolveCustomURLFromRedirect (src/src/utils.ts 243-269): [found, customURL]
resolveCustomURLFromRedirect(pa) ==
    IF pa.kind = "throw" \/ ~pa.hasLocation THEN [found |-> FALSE, s |-> <<>>]
    ELSE IF ~UrlHasHostPath(pa.location, "id") THEN [found |-> FALSE, s |-> <<>>]
    ELSE LET split == IF LastOf(pa.location) = <<>>
                      THEN SubSeq(pa.location, 1, Len(pa.location) - 1)
                      ELSE pa.location
             customURL == LastOf(split)
         IN  IF customURL # <<>> THEN [found |-> TRUE, s |-> customURL]
             ELSE [found |-> FALSE, s |-> <<>>]

(***************************************************************************)
(* parseSteamXML: one attempt (src/src/utils.ts 272-381)                   *)
(***************************************************************************)
\* mutant: only the XML declaration is looked for
HasXmlMarkerDeclOnly(text) == Includes(text, <<"<?xml">>)

\* lines 282-286: the body carries one of the three XML markers
HasXmlMarker(text) ==
    \/ Includes(text, <<"<?xml">>)
    \/ Includes(text, <<"<profile">>)
    \/ Includes(text, <<"<memberList">>)

\* mutant: the request URL is not looked at
PreParseCheckNoUrlContext(u, text) ==
    IF IsBlank(text) \/ TextLength(text) < MinBodyLength
    THEN [pass |-> FALSE,
          error |-> SteamEmptyResponseError(<<"Steam returned empty response">>)]
    ELSE IF ~HasXmlMarker(text)
    THEN IF \/ Includes(text, <<"group could not be found">>)
            \/ Includes(text, <<"group does not exist">>)
            \/ Includes(text, <<"Group">>)
            \/ Includes(text, <<"<html">>) /\ Includes(text, <<"error">>)
         THEN [pass |-> FALSE, error |-> SteamGroupNotFoundError(<<"group">>)]
         ELSE [pass |-> FALSE,
               error |-> SteamAPIError(<<"Invalid XML response from Steam">>, "PARSE_ERROR")]
    ELSE [pass |-> TRUE, error |-> NoError]

\* mutant: the non-XML short-circuit runs before the empty check
PreParseCheckShortCircuitFirst(u, text) ==
    IF ~HasXmlMarker(text) /\ UrlIsGroup(u)
    THEN [pass |-> FALSE, error |-> SteamGroupNotFoundError(<<"group">>)]
    ELSE IF /\ ~HasXmlMarker(text)
            /\ \/ Includes(text, <<"group could not be found">>)
               \/ Includes(text, <<"group does not exist">>)
               \/ Includes(text, <<"Group">>)
               \/ Includes(text, <<"<html">>) /\ Includes(text, <<"error">>)
    THEN [pass |-> FALSE, error |-> SteamGroupNotFoundError(<<"group">>)]
    ELSE IF IsBlank(text) \/ TextLength(text) < MinBodyLength
    THEN [pass |-> FALSE,
          error |-> SteamEmptyResponseError(<<"Steam returned empty response">>)]
    ELSE IF ~HasXmlMarker(text)
    THEN [pass |-> FALSE,
          error |-> SteamAPIError(<<"Invalid XML response from Steam">>, "PARSE_ERROR")]
    ELSE [pass |-> TRUE, error |-> NoError]

\* the body checks before decoding, lines 276-303: [pass, error]
PreParseCheck(u, text) ==
    IF IsBlank(text) \/ TextLength(text) < MinBodyLength
    THEN [pass |-> FALSE,
          error |-> SteamEmptyResponseError(<<"Steam returned empty response">>)]
    ELSE IF ~HasXmlMarker(text)
    THEN IF UrlIsGroup(u)
         THEN [pass |-> FALSE, error |-> SteamGroupNotFoundError(<<"group">>)]
         ELSE IF \/ Includes(text, <<"group could not be found">>)
                 \/ Includes(text, <<"group does not exist">>)
                 \/ Includes(text, <<"Group">>)
                 \/ Includes(text, <<"<html">>) /\ Includes(text, <<"error">>)
         THEN [pass |-> FALSE, error |-> SteamGroupNotFoundError(<<"group">>)]
         ELSE [pass |-> FALSE,
               error |-> SteamAPIError(<<"Invalid XML response from Steam">>, "PARSE_ERROR")]
    ELSE [pass |-> TRUE, error |-> NoError]

\* mutant: the group phrase is tested before the profile phrases
InterpretErrorGroupFirst(e) ==
    LET x == extractString(e)
        errorMessage == IF x.def /\ x.s # <<>> THEN x.s ELSE <<"Unknown error">>
    IN  IF Includes(errorMessage, <<"group could not be found">>)
        THEN SteamGroupNotFoundError(<<"group">>)
        ELSE IF \/ Includes(errorMessage, <<"profile could not be found">>)
                \/ Includes(errorMessage, <<"Failed loading profile data">>)
        THEN SteamProfileNotFoundError(<<"profile">>)
        ELSE SteamAPIError(errorMessage, "PARSE_ERROR")

\* the error-message interpreter, lines 315-329
InterpretError(e) ==
    LET x == extractString(e)
        errorMessage == IF x.def /\ x.s # <<>> THEN x.s ELSE <<"Unknown error">>
    IN  IF \/ Includes(errorMessage, <<"profile could not be found">>)
           \/ Includes(errorMessage, <<"The specified ", "profile could not be found">>)
           \/ Includes(errorMessage, <<"Failed loading profile data">>)
        THEN SteamProfileNotFoundError(<<"profile">>)
        ELSE IF Includes(errorMessage, <<"group could not be found">>)
        THEN SteamGroupNotFoundError(<<"group">>)
        ELSE SteamAPIError(errorMessage, "PARSE_ERROR")

\* mutant: every profile with a privacyState is treated as non-public
IsNonPublicAnyState(p) == Truthy(p["privacyState"])

\* profile.privacyState && extractString(profile.privacyState) !== 'public', lines 345-348
IsNonPublic(p) ==
    /\ Truthy(p["privacyState"])
    /\ LET x == extractString(p["privacyState"]) IN ~(x.def /\ x.s = <<"public">>)

\* mutant: the ?xml=1 suffix is left on the segment
LiteralStepKeepSuffix(u, p) ==
    IF UrlHasHostPath(u, "id")
    THEN LET customURL == LastOf(u)
         IN  [profile |-> IF customURL # <<>>
                          THEN [p EXCEPT !["customURL"] = Arr(<<customURL>>)]
                          ELSE p,
              literal |-> 1]
    ELSE [profile |-> p, literal |-> 0]

\* lines 358-364: the vanity name read off the request URL: [profile, literal]
LiteralStep(u, p) ==
    IF UrlHasHostPath(u, "id")
    THEN LET customURL == RemoveFirst(LastOf(u), "?xml=1")
         IN  [profile |-> IF customURL # <<>>
                          THEN [p EXCEPT !["customURL"] = Arr(<<customURL>>)]
                          ELSE p,
              literal |-> 1]
    ELSE [profile |-> p, literal |-> 0]

\* lines 305-379 up to the redirect probe
ClassifyParsed(u, d) ==
    IF d.status = "null"
    THEN \* line 306: Object.keys(parsed) throws a TypeError on null
         Failure(PlainError(<<"Cannot convert undefined or null to object">>))
    ELSE IF isEmptyResponse(d)
    THEN Failure(SteamEmptyResponseError(<<"Steam returned empty response">>))
    ELSE IF isErrorResponse(d)
    THEN Failure(InterpretError(d.tree.response.error))
    ELSE IF isProfileResponse(d)
    THEN IF ~hasMinimalProfileData(d.tree.profile)
         THEN Failure(SteamAPIError(<<"Profile missing required fields">>, "PARSE_ERROR"))
         ELSE IF IsNonPublic(d.tree.profile.obj)
         THEN IF UrlHasHostPath(u, "profiles")
              THEN NeedsProbe(d.tree.profile.obj)
              ELSE LET l == LiteralStep(u, d.tree.profile.obj)
                   IN  Success(Returned("profile", <<>>, l.profile), l.literal)
         ELSE Success(Returned("profile", <<>>, d.tree.profile.obj), 0)
    ELSE IF isGroupResponse(d)
    THEN Success(Returned("group", d.tree.memberList.groupID64, NoProfile), 0)
    ELSE Failure(SteamAPIError(<<"Unexpected response format from Steam">>, "PARSE_ERROR"))

\* lines 274-305: the attempt gets as far as calling parseXMLToJSON
ReachesDecoder(u, r) == fetchSteamXML(r).ok /\ PreParseCheck(u, r.body.text).pass

\* the operation passed to withRetry, from the fetch result to the first further await
AttemptStart(u, r) ==
    LET f == fetchSteamXML(r)
    IN  IF ~f.ok THEN Failure(f.error)
        ELSE LET pre == PreParseCheck(u, r.body.text)
             IN  IF ~pre.pass THEN Failure(pre.error)
                 ELSE LET x == parseXMLToJSON(r.body)
                      IN  IF ~x.ok THEN Failure(x.error)
                          ELSE ClassifyParsed(u, r.body.decoded)

\* mutant: the recovered name is pushed onto the customURL the profile has
AttemptAfterProbePush(u, p, pa) ==
    LET customURL == resolveCustomURLFromRedirect(pa)
        p1 == IF customURL.found
              THEN [p EXCEPT !["customURL"] =
                       IF @.kind = "array" THEN Arr(Append(@.v, customURL.s))
                       ELSE Arr(<<customURL.s>>)]
              ELSE p
        l == LiteralStep(u, p1)
    IN  Success(Returned("profile", <<>>, l.profile), l.literal)

\* mutant: a recovered profile is also marked public
AttemptAfterProbeMarkPublic(u, p, pa) ==
    LET customURL == resolveCustomURLFromRedirect(pa)
        p1 == IF customURL.found
              THEN [p EXCEPT !["customURL"] = Arr(<<customURL.s>>),
                             !["privacyState"] = Arr(<< <<"public">> >>)]
              ELSE p
        l == LiteralStep(u, p1)
    IN  Success(Returned("profile", <<>>, l.profile), l.literal)

\* lines 352-367 after the redirect probe has answered
AttemptAfterProbe(u, p, pa) ==
    LET customURL == resolveCustomURLFromRedirect(pa)
        p1 == IF customURL.found THEN [p EXCEPT !["customURL"] = Arr(<<customURL.s>>)] ELSE p
        l == LiteralStep(u, p1)
    IN  Success(Returned("profile", <<>>, l.profile), l.literal)

(***************************************************************************)
(* validateSharedfile (src/src/utils.ts 384-402)                           *)
(***************************************************************************)
\* mutant: the error_message marker is not looked for
IsInvalidSharedfileTwoPhrases(html) ==
    \/ Includes(html, <<"There was a problem accessing the item">>)
    \/ Includes(html, <<"That item does not exist">>)

\* lines 392-395: the page carries one of the failure phrases
IsInvalidSharedfile(html) ==
    \/ Includes(html, <<"There was a problem accessing the item">>)
    \/ Includes(html, <<"That item does not exist">>)
    \/ Includes(html, <<"error_message">>)

\* the value validateSharedfile resolves to, given how fetch and text() went
validateSharedfile(r) ==
    IF r.kind \in {"throw", "textthrow"} THEN FALSE
    ELSE ~IsInvalidSharedfile(r.body.text)

\* a boolean as a result value
BoolValue(b) == IF b THEN <<"true">> ELSE <<"false">>

(***************************************************************************)
(* Inputs of parseSteamXML: what the network may answer                     *)
(***************************************************************************)
\* error messages are drawn from sequences of at most MaxMsgLen of these chunks
MsgChunks == {"The specified ", "profile could not be found", "Failed loading profile data",
              "group could not be found", "Access denied"}

Messages == UNION {[1..n -> MsgChunks] : n \in 0..MaxMsgLen}

One(s) == Arr(<< <<s>> >>)

BaseProfile(privacy, customURL) ==
    [f \in Fields |->
        CASE f = "steamID64" -> One("76561198260031749")
          [] f = "steamID" -> One("3urobeat")
          [] f = "onlineState" -> One("offline")
          [] f = "privacyState" -> privacy
          [] f = "customURL" -> customURL
          [] OTHER -> One("0")]

\* a decoded element is absent or an array of at least one text ('' for an empty tag)
PrivacyVals == {One("public"), One("private"), One("friendsonly"), Arr(<< <<>> >>), Absent}
CustomVals == {Absent, One("bodyvanity")}

ProfileObjects ==
    {BaseProfile(p, u) : p \in PrivacyVals, u \in CustomVals}
    \cup {[BaseProfile(p, Absent) EXCEPT ![f] = x] :
             p \in {One("public"), One("private")},
             f \in {"steamID64", "onlineState", "vacBanned", "isLimitedAccount"},
             x \in {Absent, Arr(<< <<"0">>, <<"1">> >>)}}

ProfileVals == {NoObject, ProfileText} \cup {ProfileObject(p) : p \in ProfileObjects}
MemberListVals == {NoMemberList, MemberList(<<"103582791464712227">>)}

Trees ==
    {Tree(Envelope(Arr(<<m>>)), p, m2, FALSE) :
        m \in Messages,
        p \in {NoObject, ProfileObject(BaseProfile(One("public"), Absent))},
        m2 \in MemberListVals}
    \cup {Tree(r, p, m2, o) :
            r \in {NoEnvelope, Envelope(Absent), EnvelopeText},
            p \in ProfileVals, m2 \in MemberListVals, o \in BOOLEAN}

Decodings == {Malformed, NullResult} \cup {Parsed(t) : t \in Trees}

\* the text of a body that xml2js decodes to d
XmlText(d) ==
    <<"<?xml", " version=1.0 ?>">>
    \o (IF d.tree.response.kind # "absent" THEN <<"<response", "/>">> ELSE <<>>)
    \o (IF d.tree.profile.kind # "absent" THEN <<"<profile", "/>">> ELSE <<>>)
    \o (IF d.tree.memberList.kind # "absent" THEN <<"<memberList", "/>">> ELSE <<>>)
    \o (IF d.tree.other THEN <<"<gamesList", "/>">> ELSE <<>>)

PlainTexts == { <<>>, <<"   ">>, <<"            ">>, <<"Not found">>, <<"<?xml">>,
                <<"<html", "><body>Sorry</body></html>">>,
                <<"<html", "><body>", "error", "</body></html>">>,
                <<"The ", "group could not be found", ".">>,
                <<"This ", "group does not exist">>,
                <<"Steam ", "Group", " page">>,
                <<"Group">>,
                <<"Service Unavailable">> }

Bodies == {[text |-> t, decoded |-> Malformed] : t \in PlainTexts}
          \cup {[text |-> XmlText(d), decoded |-> d] : d \in Decodings}
          \cup {[text |-> <<"<profile", "><steamID64>">>, decoded |-> Malformed]}

EmptyBody == [text |-> <<>>, decoded |-> Malformed]
GoodBody == LET d == Parsed(Tree(NoEnvelope,
                                 ProfileObject(BaseProfile(One("public"), Absent)),
                                 NoMemberList, FALSE))
            IN  [text |-> XmlText(d), decoded |-> d]

\* what fetch() or response.text() may throw: a TypeError or a value that is no Error
TransportThrows == {PlainError(<<"fetch failed">>), ThrownValue(<<"aborted">>)}

\* the transport throws; or a response arrives (2xx or not) whose body can be
\* read, or whose body read throws
ThrowResponse(e) == [kind |-> "throw", ok |-> FALSE, body |-> EmptyBody, error |-> e]
TextThrowResponse(ok, e) == [kind |-> "textthrow", ok |-> ok, body |-> EmptyBody, error |-> e]
HttpResponse(ok, b) == [kind |-> "http", ok |-> ok, body |-> b, error |-> NoError]

Responses ==
    {ThrowResponse(e) : e \in TransportThrows}
    \cup { TextThrowResponse(TRUE, PlainError(<<"body read failed">>)),
           HttpResponse(FALSE, GoodBody),
           HttpResponse(FALSE, EmptyBody) }
    \cup {HttpResponse(TRUE, b) : b \in Bodies}

NoResponse == [kind |-> "none", ok |-> FALSE, body |-> EmptyBody, error |-> NoError]

\* with two calls in flight the answers are drawn from this smaller set
PairDecodings ==
    { NullResult,
      Parsed(Tree(Envelope(One("profile could not be found")), NoObject, NoMemberList, FALSE)),
      Parsed(Tree(NoEnvelope, ProfileObject(BaseProfile(One("public"), Absent)),
                  NoMemberList, FALSE)),
      Parsed(Tree(NoEnvelope, ProfileObject(BaseProfile(One("private"), Absent)),
                  NoMemberList, FALSE)),
      Parsed(Tree(NoEnvelope, ProfileObject(BaseProfile(Absent, Absent)),
                  NoMemberList, FALSE)),
      Parsed(Tree(NoEnvelope, NoObject, MemberList(<<"103582791464712227">>), FALSE)),
      Parsed(Tree(NoEnvelope, NoObject, NoMemberList, TRUE)) }

PairResponses ==
    { ThrowResponse(PlainError(<<"fetch failed">>)),
      HttpResponse(TRUE, EmptyBody) }
    \cup {HttpResponse(TRUE, [text |-> t, decoded |-> Malformed]) :
             t \in { <<"Service Unavailable">>,
                     <<"The ", "group could not be found", ".">>,
                     <<"<profile", "><steamID64>">> }}
    \cup {HttpResponse(TRUE, [text |-> XmlText(d), decoded |-> d]) : d \in PairDecodings}

PairProbeAnswers ==
    { [kind |-> "response", hasLocation |-> FALSE, location |-> <<>>],
      [kind |-> "response", hasLocation |-> TRUE,
       location |-> Host \o << <<"id">>, <<"redirvanity">>, <<>> >>] }

\* answers to the redirect probe: the request throws, or a response with or
\* without a Location header (kept split on "/")
Locations == { Host \o << <<"id">>, <<"redirvanity">>, <<>> >>,
               Host \o << <<"id">>, <<"redirvanity">> >>,
               Host \o << <<"id">>, <<>> >>,
               Host \o << <<"id">>, <<>>, <<>> >>,
               Host \o << <<"profiles">>, <<"76561198260031749">> >>,
               Host \o << <<"login">>, <<"home">>, <<>> >>,
               << <<>>, <<"id">>, <<"redirvanity">>, <<>> >>,
               << <<"https:">>, <<>>, <<"example.com">>, <<"id">>, <<"redirvanity">> >> }

NoProbeAnswer == [kind |-> "none", hasLocation |-> FALSE, location |-> <<>>]

ProbeAnswers ==
    { [kind |-> "throw", hasLocation |-> FALSE, location |-> <<>>],
      [kind |-> "response", hasLocation |-> FALSE, location |-> <<>>] }
    \cup {[kind |-> "response", hasLocation |-> TRUE, location |-> l] : l \in Locations}

\* pages the sharedfile URL may answer with
SharedfileTexts ==
    { <<>>,
      <<"<html", "><body>", "Workshop item", "</body></html>">>,
      <<"<html", "><body>", "There was a problem accessing the item", "</body></html>">>,
      <<"<html", "><body>", "That item does not exist", "</body></html>">>,
      <<"<div class=", "error_message", ">">>,
      <<"<html", "><body>", "error", "</body></html>">>,
      <<"that item does not exist">>,
      <<"Workshop item", "That item does not exist", "error_message">>,
      <<"Service Unavailable">> }

SharedfileResponses ==
    {ThrowResponse(e) : e \in TransportThrows}
    \cup {TextThrowResponse(ok, PlainError(<<"body read failed">>)) : ok \in BOOLEAN}
    \cup {HttpResponse(ok, [text |-> t, decoded |-> Malformed]) :
             ok \in BOOLEAN, t \in SharedfileTexts}

\* candidates handed to the validator on its own
FieldShapes == {Absent, Arr(<<>>), One("x"), Str(<<"x">>), Str(<<>>)}

Candidates ==
    {NoObject, ProfileText}
    \cup {ProfileObject([f \in Fields |-> IF f \in RequiredByValidator THEN g[f] ELSE Absent]) :
             g \in [RequiredByValidator -> FieldShapes]}

(***************************************************************************)
(* The decoder: xml2js parseString as parseXMLToJSON calls it              *)
(* (src/src/utils.ts 180-204)                                              *)
(***************************************************************************)
\* a profile document: the child elements of <profile>, in document order,
\* each an element name and its text
ChildNames == {"steamID64", "steamID", "customURL"}
ChildTexts == {<<"x">>, <<>>}
Documents ==
    UNION {[1..n -> [name : ChildNames, text : ChildTexts]] : n \in 0..MaxChildren}

NoDocument == <<>>
NotDecoded == [status |-> "none", tree |-> EmptyTree]

\* the texts of the children of d named f, in document order
TextsOf(d, f) ==
    LET Named(ch) == ch.name = f
        sel == SelectSeq(d, Named)
    IN  [i \in 1..Len(sel) |-> sel[i].text]

\* xml2js: with explicitArray every child element is put in an array, without
\* it an array is made only for a name that occurs more than once; an element
\* without children or text decodes to the empty string
parseString(d, explicitArray) ==
    IF d = <<>>
    THEN Parsed(Tree(NoEnvelope, ProfileText, NoMemberList, FALSE))
    ELSE Parsed(Tree(NoEnvelope,
                     ProfileObject(
                        [f \in Fields |->
                            LET texts == TextsOf(d, f)
                            IN  IF texts = <<>> THEN Absent
                                ELSE IF explicitArray \/ Len(texts) > 1 THEN Arr(texts)
                                ELSE Str(texts[1])]),
                     NoMemberList, FALSE))

\* mutant: parseString is called without explicitArray
DecodeDocumentBareSingletons(d) == parseString(d, FALSE)

\* lines 182-188: parseString(xmlString, { explicitArray: true, ... })
DecodeDocument(d) == parseString(d, TRUE)

(***************************************************************************)
(* The API functions (src/src/api/profile-api.ts, src/src/api/group-api.ts) *)
(* and createDualSupport (src/src/utils.ts 412-433)                        *)
(***************************************************************************)
ProfileApis == {"steamID64ToCustomUrl", "steamID64ToProfileName", "customUrlToSteamID64",
                "customUrlToProfileName", "steamID64ToFullInfo", "customUrlToFullInfo"}
GroupApis == {"groupUrlToGroupID64", "groupUrlToFullInfo"}
Apis == ProfileApis \cup GroupApis

\* the identifier the caller passes to API function a
ApiIdentifier(a) ==
    IF a \in {"steamID64ToCustomUrl", "steamID64ToProfileName", "steamID64ToFullInfo"}
    THEN <<"76561198260031749">>
    ELSE IF a \in GroupApis THEN <<"3urobeatGroup">>
    ELSE <<"3urobeat">>

\* buildProfileURL / buildGroupURL applied to that identifier
ApiUrl(a) ==
    IF a \in {"steamID64ToCustomUrl", "steamID64ToProfileName", "steamID64ToFullInfo"}
    THEN ProfileIdUrl
    ELSE IF a \in GroupApis THEN GroupUrl
    ELSE VanityUrl("3urobeat")

\* the field of the profile an extracting function reads, and the message of
\* the error it throws when the field gives nothing
ApiField(a) ==
    CASE a = "steamID64ToCustomUrl" -> "customURL"
      [] a \in {"steamID64ToProfileName", "customUrlToProfileName"} -> "steamID"
      [] OTHER -> "steamID64"

ApiFailedToResolve(a) ==
    CASE a = "steamID64ToCustomUrl" -> <<"Failed to resolve customURL">>
      [] a \in {"steamID64ToProfileName", "customUrlToProfileName"} ->
           <<"Failed to resolve profile name">>
      [] a = "groupUrlToGroupID64" -> <<"Failed to resolve groupID64">>
      [] OTHER -> <<"Failed to resolve steamID64">>

\* mutant: the extracted string is returned without the falsy test
ExtractOrThrowUnchecked(a, x) == Returned("string", x.s, NoProfile)

\* const v = extractString(...); if (!v) throw new SteamAPIError(...); return v
ExtractOrThrow(a, x) ==
    IF ~x.def \/ x.s = <<>>
    THEN Thrown(SteamAPIError(ApiFailedToResolve(a), "PARSE_ERROR"))
    ELSE Returned("string", x.s, NoProfile)

\* mutant: a result of another type is reported as a plain Error
ProfileOperationPlainError(a, o) ==
    IF o.status = "thrown" THEN o
    ELSE IF o.type # "profile" THEN Thrown(PlainError(<<"Not a profile">>))
    ELSE IF a \in {"steamID64ToFullInfo", "customUrlToFullInfo"} THEN o
    ELSE ExtractOrThrow(a, extractString(o.data[ApiField(a)]))

\* the async operation of a profile function after parseSteamXML settled as o
ProfileOperation(a, o) ==
    IF o.status = "thrown" THEN o
    ELSE IF o.type # "profile" THEN Thrown(SteamProfileNotFoundError(ApiIdentifier(a)))
    ELSE IF a \in {"steamID64ToFullInfo", "customUrlToFullInfo"} THEN o
    ELSE ExtractOrThrow(a, extractString(o.data[ApiField(a)]))

\* mutant: the type of the result is not tested
GroupOperationAnyType(a, o) ==
    IF o.status = "thrown" THEN o
    ELSE IF a = "groupUrlToFullInfo" THEN o
    ELSE ExtractOrThrow(a, [def |-> o.value # <<>>, s |-> o.value])

\* the async operation of a group function after parseSteamXML settled as o
GroupOperation(a, o) ==
    IF o.status = "thrown" THEN o
    ELSE IF o.type # "group" THEN Thrown(SteamGroupNotFoundError(ApiIdentifier(a)))
    ELSE IF a = "groupUrlToFullInfo" THEN o
    ELSE ExtractOrThrow(a, [def |-> o.value # <<>>, s |-> o.value])

ApiOperation(a, o) ==
    IF a \in GroupApis THEN GroupOperation(a, o) ELSE ProfileOperation(a, o)

\* one invocation of the callback: callback(null, result) or callback(message, null)
CallbackWithResult(r) == [errIsNull |-> TRUE, err |-> <<>>, resultIsNull |-> FALSE, result |-> r]
CallbackWithError(m) ==
    [errIsNull |-> FALSE, err |-> m, resultIsNull |-> TRUE, result |-> Pending]

\* error.message || String(error)
MessageOrString(e) == IF e.message # <<>> THEN e.message ELSE <<"Error">>

\* what a throwing callback throws
CallbackError == PlainError(<<"callback failed">>)

\* the value the swallowing catch resolves to: undefined
ResolvedUndefined == Returned("undefined", <<>>, NoProfile)

\* mutant: in callback mode the operation's promise itself is returned
createDualSupportRawPromise(o, cb) ==
    IF cb = "none"
    THEN [calls |-> <<>>, promise |-> o]
    ELSE [calls |-> IF o.status = "returned"
                    THEN <<CallbackWithResult(o)>>
                         \o (IF cb = "throws"
                             THEN <<CallbackWithError(MessageOrString(CallbackError))>>
                             ELSE <<>>)
                    ELSE <<CallbackWithError(MessageOrString(o.error))>>,
          promise |-> o]

\* createDualSupport: the callback invocations and the returned promise, for
\* an operation that settled as o. The catch handler is chained after the
\* then handler, so it also receives what the then handler throws.
createDualSupport(o, cb) ==
    IF cb = "none"
    THEN [calls |-> <<>>, promise |-> o]
    ELSE [calls |-> IF o.status = "returned"
                    THEN <<CallbackWithResult(o)>>
                         \o (IF cb = "throws"
                             THEN <<CallbackWithError(MessageOrString(CallbackError))>>
                             ELSE <<>>)
                    ELSE <<CallbackWithError(MessageOrString(o.error))>>,
          promise |-> IF o.status = "returned" THEN o ELSE ResolvedUndefined]

\* the documents and bodies the API functions are explored with
ApiProfiles ==
    { BaseProfile(One("public"), Absent),
      BaseProfile(One("public"), One("bodyvanity")),
      BaseProfile(One("public"), Arr(<< <<>> >>)),
      BaseProfile(One("private"), Absent),
      BaseProfile(Absent, Absent),
      [BaseProfile(One("public"), One("bodyvanity")) EXCEPT !["steamID"] = Arr(<< <<>> >>)],
      [BaseProfile(One("public"), One("bodyvanity")) EXCEPT !["steamID64"] = Arr(<< <<>> >>)] }

ApiDecodings ==
    { NullResult,
      Parsed(Tree(Envelope(One("profile could not be found")), NoObject, NoMemberList, FALSE)),
      Parsed(Tree(Envelope(One("group could not be found")), NoObject, NoMemberList, FALSE)),
      Parsed(Tree(Envelope(One("Access denied")), NoObject, NoMemberList, FALSE)),
      Parsed(Tree(NoEnvelope, NoObject, MemberList(<<"103582791464712227">>), FALSE)),
      Parsed(Tree(NoEnvelope, NoObject, MemberList(<<>>), FALSE)),
      Parsed(Tree(NoEnvelope, NoObject, NoMemberList, TRUE)) }
    \cup {Parsed(Tree(NoEnvelope, ProfileObject(p), NoMemberList, FALSE)) : p \in ApiProfiles}

ApiResponses ==
    { ThrowResponse(PlainError(<<"fetch failed">>)),
      HttpResponse(TRUE, EmptyBody) }
    \cup {HttpResponse(TRUE, [text |-> t, decoded |-> Malformed]) :
             t \in { <<"Service Unavailable">>, <<"            ">>, <<"Group">> }}
    \cup {HttpResponse(TRUE, [text |-> XmlText(d), decoded |-> d]) : d \in ApiDecodings}

(***************************************************************************)
(* withRetry steps, shared by every operation                              *)
(***************************************************************************)
\* mutant: the loop body runs once before the bound is tested
LoopHeadDoWhile(c, a) ==
    /\ attempt' = [attempt EXCEPT ![c] = a]
    /\ IF a = 1 \/ a <= maxRetries[c]
       THEN /\ pc' = [pc EXCEPT ![c] = IF op[c] = "generic" THEN "operation" ELSE "fetch"]
            /\ invocations' = [invocations EXCEPT ![c] = @ + 1]
            /\ fetches' = [fetches EXCEPT ![c] = IF op[c] = "parse" THEN @ + 1 ELSE @]
            /\ outcome' = outcome
       ELSE /\ pc' = [pc EXCEPT ![c] = "done"]
            /\ outcome' = [outcome EXCEPT ![c] = Thrown(FinalError(lastError[c]))]
            /\ UNCHANGED <<invocations, fetches>>

\* for (attempt...; attempt <= maxRetries; ...) { return await operation() ... }
\* followed by the throw after the loop
LoopHead(c, a) ==
    /\ attempt' = [attempt EXCEPT ![c] = a]
    /\ IF a <= maxRetries[c]
       THEN /\ pc' = [pc EXCEPT ![c] = IF op[c] = "generic" THEN "operation" ELSE "fetch"]
            /\ invocations' = [invocations EXCEPT ![c] = @ + 1]
            /\ fetches' = [fetches EXCEPT ![c] = IF op[c] = "parse" THEN @ + 1 ELSE @]
            /\ outcome' = outcome
       ELSE /\ pc' = [pc EXCEPT ![c] = "done"]
            /\ outcome' = [outcome EXCEPT ![c] = Thrown(FinalError(lastError[c]))]
            /\ UNCHANGED <<invocations, fetches>>

\* mutant: lastError is one variable shared by every call in flight
CatchSharedLastError(c, e) ==
    /\ lastError' = [d \in DOMAIN lastError |-> CaptureError(e)]
    /\ IF IsLastAttempt(attempt[c], maxRetries[c])
       THEN /\ pc' = [pc EXCEPT ![c] = "done"]
            /\ outcome' = [outcome EXCEPT ![c] = Thrown(FinalError(CaptureError(e)))]
            /\ sleeps' = sleeps
       ELSE /\ pc' = [pc EXCEPT ![c] = "sleep"]
            /\ outcome' = outcome
            /\ sleeps' = [sleeps EXCEPT
                            ![c] = Append(@, RetryDelay(delay[c], attempt[c]))]

\* catch (error) { lastError = ...; if (attempt === maxRetries) break; await sleep }
Catch(c, e) ==
    /\ lastError' = [lastError EXCEPT ![c] = CaptureError(e)]
    /\ IF IsLastAttempt(attempt[c], maxRetries[c])
       THEN /\ pc' = [pc EXCEPT ![c] = "done"]
            /\ outcome' = [outcome EXCEPT ![c] = Thrown(FinalError(CaptureError(e)))]
            /\ sleeps' = sleeps
       ELSE /\ pc' = [pc EXCEPT ![c] = "sleep"]
            /\ outcome' = outcome
            /\ sleeps' = [sleeps EXCEPT
                            ![c] = Append(@, RetryDelay(delay[c], attempt[c]))]

\* return await operation()
Return(c, r) ==
    /\ pc' = [pc EXCEPT ![c] = "done"]
    /\ outcome' = [outcome EXCEPT ![c] = r]
    /\ UNCHANGED <<lastError, sleeps>>

\* the calls in flight, and the identifiers a call can have
Calls == DOMAIN pc
CallIds == {1, 2}

\* the answers a request of call c is explored with: a call made through an
\* API function, and calls side by side, draw from the smaller sets
ResponsesTo(c) ==
    IF api[c] # "none" THEN ApiResponses
    ELSE IF Cardinality(Calls) > 1 THEN PairResponses
    ELSE Responses

ProbeAnswersTo(c) ==
    IF api[c] # "none" \/ Cardinality(Calls) > 1 THEN PairProbeAnswers ELSE ProbeAnswers

(***************************************************************************)
(* Actions                                                                 *)
(***************************************************************************)
\* the caller calls withRetry / parseSteamXML: runs to the first await
Call(c) ==
    /\ c \in Calls
    /\ op[c] \in {"generic", "parse"}
    /\ pc[c] = "idle"
    /\ LoopHead(c, 1)
    /\ UNCHANGED <<op, url, maxRetries, delay, lastError, sleeps, hist, decodes, probes,
                   probeAnswer, literals, resp, profile, cand, verdict, decoderVars, apiVars>>

\* the pending generic operation settles
Operation(c) ==
    /\ c \in Calls
    /\ pc[c] = "operation"
    /\ \E o \in OpOutcomes :
         /\ hist' = [hist EXCEPT ![c] = Append(@, o)]
         /\ IF o.ok
            THEN Return(c, Returned("value", o.value, NoProfile))
            ELSE Catch(c, o.error)
    /\ UNCHANGED <<op, url, maxRetries, delay, attempt, invocations, fetches, decodes,
                   probes, probeAnswer, literals, resp, profile, cand, verdict, decoderVars,
                   apiVars>>

\* the backoff timer fires: attempt++ and the loop continues
Timer(c) ==
    /\ c \in Calls
    /\ pc[c] = "sleep"
    /\ LoopHead(c, attempt[c] + 1)
    /\ resp' = [resp EXCEPT ![c] = NoResponse]
    /\ decodes' = [decodes EXCEPT ![c] = 0]
    /\ UNCHANGED <<op, url, maxRetries, delay, lastError, sleeps, hist, probes, probeAnswer,
                   literals, profile, cand, verdict, decoderVars, apiVars>>

\* the pending fetch settles and the attempt runs on to its next await
Fetch(c) ==
    /\ c \in Calls
    /\ pc[c] = "fetch"
    /\ \E r \in ResponsesTo(c) :
         /\ resp' = [resp EXCEPT ![c] = r]
         /\ decodes' = [decodes EXCEPT ![c] = IF ReachesDecoder(url[c], r) THEN @ + 1 ELSE @]
         /\ LET a == AttemptStart(url[c], r)
            IN  CASE a.k = "throw" ->
                       /\ Catch(c, a.error)
                       /\ UNCHANGED <<probes, probeAnswer, literals, profile>>
                  [] a.k = "return" ->
                       /\ Return(c, a.result)
                       /\ literals' = [literals EXCEPT ![c] = @ + a.literal]
                       /\ UNCHANGED <<probes, probeAnswer, profile>>
                  [] a.k = "probe" ->
                       /\ pc' = [pc EXCEPT ![c] = "probe"]
                       /\ probes' = [probes EXCEPT ![c] = @ + 1]
                       /\ profile' = [profile EXCEPT ![c] = a.profile]
                       /\ UNCHANGED <<outcome, lastError, sleeps, probeAnswer, literals>>
    /\ UNCHANGED <<op, url, maxRetries, delay, attempt, invocations, hist, fetches,
                   cand, verdict, decoderVars, apiVars>>

\* the redirect probe settles and the attempt returns its profile
Probe(c) ==
    /\ c \in Calls
    /\ pc[c] = "probe"
    /\ \E pa \in ProbeAnswersTo(c) :
         LET a == AttemptAfterProbe(url[c], profile[c], pa)
         IN  /\ Return(c, a.result)
             /\ probeAnswer' = [probeAnswer EXCEPT ![c] = pa]
             /\ literals' = [literals EXCEPT ![c] = @ + a.literal]
    /\ UNCHANGED <<op, url, maxRetries, delay, attempt, invocations, hist, fetches,
                   decodes, probes, resp, profile, cand, verdict, decoderVars, apiVars>>

\* the caller calls validateSharedfile: runs to the await of fetch(url)
SharedfileCall(c) ==
    /\ c \in Calls
    /\ op[c] = "sharedfile"
    /\ pc[c] = "idle"
    /\ pc' = [pc EXCEPT ![c] = "sharedfetch"]
    /\ fetches' = [fetches EXCEPT ![c] = @ + 1]
    /\ UNCHANGED <<op, url, maxRetries, delay, attempt, lastError, outcome, invocations,
                   sleeps, hist, decodes, probes, probeAnswer, literals, resp, profile,
                   cand, verdict, decoderVars, apiVars>>

\* the fetch of the sharedfile page settles and validateSharedfile resolves
SharedfileFetch(c) ==
    /\ c \in Calls
    /\ pc[c] = "sharedfetch"
    /\ \E r \in SharedfileResponses :
         /\ resp' = [resp EXCEPT ![c] = r]
         /\ outcome' = [outcome EXCEPT
                          ![c] = Returned("boolean", BoolValue(validateSharedfile(r)), NoProfile)]
    /\ pc' = [pc EXCEPT ![c] = "done"]
    /\ UNCHANGED <<op, url, maxRetries, delay, attempt, lastError, invocations, sleeps,
                   hist, fetches, decodes, probes, probeAnswer, literals, profile,
                   cand, verdict, decoderVars, apiVars>>

\* hasMinimalProfileData applied to the candidate
Validate ==
    /\ verdict = "none"
    /\ verdict' = IF hasMinimalProfileData(cand) THEN "valid" ELSE "invalid"
    /\ UNCHANGED <<callVars, cand, decoderVars, apiVars>>

\* parseSteamXML settled: the rest of the API function's async operation
\* runs, then the handlers createDualSupport attached
ApiSettle(c) ==
    /\ c \in Calls
    /\ api[c] # "none"
    /\ pc[c] = "done"
    /\ pc' = [pc EXCEPT ![c] = "settled"]
    /\ LET s == createDualSupport(ApiOperation(api[c], outcome[c]), callback[c])
       IN  /\ cbCalls' = [cbCalls EXCEPT ![c] = s.calls]
           /\ promise' = [promise EXCEPT ![c] = s.promise]
    /\ UNCHANGED <<op, url, maxRetries, delay, attempt, lastError, outcome, invocations,
                   sleeps, hist, fetches, decodes, probes, probeAnswer, literals, resp,
                   profile, cand, verdict, decoderVars, api, callback>>

\* parseXMLToJSON resolves with what parseString decoded
Decode ==
    /\ doc # NoDocument
    /\ parsed = NotDecoded
    /\ parsed' = DecodeDocument(doc)
    /\ UNCHANGED <<callVars, cand, verdict, doc, apiVars>>

\* parseSteamXML calls withRetry with the default maxRetries and delay;
\* validateSharedfile does not call withRetry
InitCalls(ids, ops) ==
    /\ op \in [ids -> ops]
    /\ url \in [ids -> Urls \cup {NoUrl}]
    /\ maxRetries \in [ids -> (-1)..MaxRetriesBound]
    /\ delay \in [ids -> Delays]
    /\ \A c \in ids :
         CASE op[c] = "parse" ->
                url[c] # NoUrl /\ maxRetries[c] = DefaultMaxRetries /\ delay[c] = DefaultDelay
           [] op[c] = "sharedfile" ->
                url[c] = SharedfileUrl /\ maxRetries[c] = 0 /\ delay[c] = DefaultDelay
           [] OTHER -> url[c] = NoUrl
    /\ attempt = [c \in ids |-> 0]
    /\ pc = [c \in ids |-> "idle"]
    /\ lastError = [c \in ids |-> NoError]
    /\ outcome = [c \in ids |-> Pending]
    /\ invocations = [c \in ids |-> 0]
    /\ sleeps = [c \in ids |-> <<>>]
    /\ hist = [c \in ids |-> <<>>]
    /\ fetches = [c \in ids |-> 0]
    /\ decodes = [c \in ids |-> 0]
    /\ probes = [c \in ids |-> 0]
    /\ probeAnswer = [c \in ids |-> NoProbeAnswer]
    /\ literals = [c \in ids |-> 0]
    /\ resp = [c \in ids |-> NoResponse]
    /\ profile = [c \in ids |-> NoProfile]

\* calls that are not made through an API function
InitNoApi(ids) ==
    /\ api = [c \in ids |-> "none"]
    /\ callback = [c \in ids |-> "none"]
    /\ cbCalls = [c \in ids |-> <<>>]
    /\ promise = [c \in ids |-> Pending]

Init ==
    /\ InitCalls({1}, {"generic", "parse", "sharedfile"})
    /\ cand = NoObject
    /\ verdict = "none"
    /\ doc = NoDocument
    /\ parsed = NotDecoded
    /\ InitNoApi({1})

Next ==
    \E c \in CallIds :
        \/ Call(c)
        \/ Operation(c)
        \/ Fetch(c)
        \/ Probe(c)
        \/ Timer(c)
        \/ SharedfileCall(c)
        \/ SharedfileFetch(c)

Spec == Init /\ [][Next]_vars

\* the validator on its own, over every candidate shape
InitValidator ==
    /\ InitCalls({}, {"parse"})
    /\ cand \in Candidates
    /\ verdict = "none"
    /\ doc = NoDocument
    /\ parsed = NotDecoded
    /\ InitNoApi({})

NextValidator == Validate

SpecValidator == InitValidator /\ [][NextValidator]_vars

\* the decoder on its own, over every profile document with a child element
InitDecoder ==
    /\ InitCalls({}, {"parse"})
    /\ cand = NoObject
    /\ verdict = "none"
    /\ doc \in Documents \ {NoDocument}
    /\ parsed = NotDecoded
    /\ InitNoApi({})

NextDecoder == Decode

SpecDecoder == InitDecoder /\ [][NextDecoder]_vars

\* one call of an API function, with or without a callback
InitApi ==
    /\ InitCalls({1}, {"parse"})
    /\ api \in [{1} -> Apis]
    /\ url[1] = ApiUrl(api[1])
    /\ callback \in [{1} -> {"none", "returns", "throws"}]
    /\ cbCalls = [c \in {1} |-> <<>>]
    /\ promise = [c \in {1} |-> Pending]
    /\ cand = NoObject
    /\ verdict = "none"
    /\ doc = NoDocument
    /\ parsed = NotDecoded

NextApi ==
    \E c \in CallIds :
        \/ Call(c)
        \/ Fetch(c)
        \/ Probe(c)
        \/ Timer(c)
        \/ ApiSettle(c)

SpecApi == InitApi /\ [][NextApi]_vars

\* two parseSteamXML calls side by side
InitPair ==
    /\ InitCalls({1, 2}, {"parse"})
    /\ cand = NoObject
    /\ verdict = "none"
    /\ doc = NoDocument
    /\ parsed = NotDecoded
    /\ InitNoApi({1, 2})

NextPair ==
    \E c \in CallIds :
        \/ Call(c)
        \/ Fetch(c)
        \/ Probe(c)
        \/ Timer(c)

SpecPair == InitPair /\ [][NextPair]_vars

\* two calls side by side, each a withRetry on a generic operation or a
\* parseSteamXML, interleaved at their awaits
InitConcurrent ==
    /\ InitCalls({1, 2}, {"generic", "parse"})
    /\ \A c \in {1, 2} :
         IF op[c] = "generic"
         THEN maxRetries[c] >= 1 /\ delay[c] = DefaultDelay
         ELSE url[c] \in {ProfileIdUrl, GroupUrl}
    /\ cand = NoObject
    /\ verdict = "none"
    /\ doc = NoDocument
    /\ parsed = NotDecoded
    /\ InitNoApi({1, 2})

NextConcurrent ==
    \E c \in CallIds :
        \/ Call(c)
        \/ Operation(c)
        \/ Fetch(c)
        \/ Probe(c)
        \/ Timer(c)

SpecConcurrent == InitConcurrent /\ [][NextConcurrent]_vars

(***************************************************************************)
(* Properties                                                              *)
(***************************************************************************)
Generic(c) == op[c] = "generic"
ParseCall(c) == op[c] = "parse"

\* the call's current attempt has failed: withRetry sleeps or has rethrown
Failed(c) == pc[c] = "sleep" \/ (pc[c] = "done" /\ outcome[c].status = "thrown")

\* the call's current attempt has returned a result of the given type
ReturnedType(c, t) ==
    pc[c] = "done" /\ outcome[c].status = "returned" /\ outcome[c].type = t

\* the first n invocations of the generic operation all failed
AllFailed(c, n) == \A i \in 1..n : ~hist[c][i].ok

\* the current attempt of a parseSteamXML call has evaluated a response
Evaluated(c) == ParseCall(c) /\ resp[c] # NoResponse

\* the body of a response, stated on the text alone
BodyIsEmpty(t) == IsBlank(t) \/ TextLength(t) < MinBodyLength
BodyHasMarker(t) ==
    Includes(t, <<"<?xml">>) \/ Includes(t, <<"<profile">>) \/ Includes(t, <<"<memberList">>)

\* the response was delivered with a 2xx status and its body was decoded to a value
ReachedClassifier(c) ==
    /\ Evaluated(c)
    /\ resp[c].kind = "http" /\ resp[c].ok
    /\ ~BodyIsEmpty(resp[c].body.text)
    /\ BodyHasMarker(resp[c].body.text)
    /\ resp[c].body.decoded.status # "malformed"

DecodedOf(c) == resp[c].body.decoded
TreeOf(c) == resp[c].body.decoded.tree

HasEnvelope(t) == t.response.kind = "object" /\ t.response.error.kind # "absent"
HasProfileKey(t) == t.profile.kind # "absent"
HasMemberListKey(t) == t.memberList.kind # "absent"
HasNoKeys(t) ==
    t.response.kind = "absent" /\ ~HasProfileKey(t) /\ ~HasMemberListKey(t) /\ ~t.other

\* the tag an evaluated attempt ended with: the result type or the error code
ObservedTag(c) ==
    IF pc[c] = "probe" THEN "profile"
    ELSE IF pc[c] = "done" /\ outcome[c].status = "returned" THEN outcome[c].type
    ELSE lastError[c].code

C2_ExhaustionRethrowsLast ==
    \A c \in Calls :
        (Generic(c) /\ maxRetries[c] >= 1 /\ Len(hist[c]) = maxRetries[c]
            /\ AllFailed(c, maxRetries[c])) =>
            LET last == hist[c][maxRetries[c]].error
            IN  /\ pc[c] = "done"
                /\ outcome[c].status = "thrown"
                /\ invocations[c] = maxRetries[c]
                /\ Len(sleeps[c]) = maxRetries[c] - 1
                /\ outcome[c].error.code = last.code
                /\ outcome[c].error.message = last.message
                /\ (last.isError => outcome[c].error = last)

\* C2 witness: three failures with maxRetries = 3, the last one a NETWORK_ERROR
C2_Witness ==
    \E c \in Calls :
        /\ Generic(c) /\ maxRetries[c] = 3 /\ Len(hist[c]) = 3 /\ AllFailed(c, 3)
        /\ hist[c][2].error.code = "none"
        /\ outcome[c].status = "thrown"
        /\ outcome[c].error.code = "NETWORK_ERROR"

\* C3: inside parseSteamXML every failed attempt, whatever its error kind, is
\* followed by the same wait and refetch; the error reaches the caller only
\* after exactly three fetches and the sleeps 1000, 2000.
C3_EveryFailureRetried ==
    \A c \in Calls :
        ParseCall(c) =>
            /\ (Evaluated(c) /\ AttemptStart(url[c], resp[c]).k = "throw") =>
                  IF attempt[c] < DefaultMaxRetries
                  THEN /\ pc[c] = "sleep"
                       /\ fetches[c] = attempt[c]
                       /\ sleeps[c] = [i \in 1..attempt[c] |-> DefaultDelay * i]
                  ELSE /\ pc[c] = "done"
                       /\ outcome[c].status = "thrown"
            /\ (pc[c] = "done" /\ outcome[c].status = "thrown") =>
                  /\ fetches[c] = DefaultMaxRetries
                  /\ sleeps[c] = <<DefaultDelay, 2 * DefaultDelay>>
                  /\ outcome[c].error = lastError[c]

\* C3 witness: a profile-not-found envelope has been fetched three times and
\* the PROFILE_NOT_FOUND error has reached the caller
C3_Witness ==
    \E c \in Calls :
        /\ ParseCall(c) /\ pc[c] = "done" /\ outcome[c].status = "thrown"
        /\ outcome[c].error.code = "PROFILE_NOT_FOUND"
        /\ fetches[c] = 3

\* C4 (as claimed): the decoded value is classified in the order empty,
\* error envelope, profile, memberList, first match wins; an empty decoded
\* value gives EMPTY_RESPONSE and a value matching none gives PARSE_ERROR.
C4_ClassificationOrder ==
    \A c \in Calls :
        ReachedClassifier(c) =>
            LET d == DecodedOf(c)
                t == TreeOf(c)
            IN  IF d.status = "null" \/ HasNoKeys(t)
                THEN Failed(c) /\ lastError[c].code = "EMPTY_RESPONSE"
                ELSE IF HasEnvelope(t)
                THEN /\ Failed(c)
                     /\ lastError[c].code \in {"PROFILE_NOT_FOUND", "GROUP_NOT_FOUND",
                        "PARSE_ERROR"}
                     /\ lastError[c].message # <<"Profile missing required fields">>
                     /\ lastError[c].message # <<"Unexpected response format from Steam">>
                ELSE IF HasProfileKey(t)
                THEN \/ pc[c] = "probe"
                     \/ ReturnedType(c, "profile")
                     \/ /\ Failed(c)
                        /\ lastError[c].message = <<"Profile missing required fields">>
                ELSE IF HasMemberListKey(t)
                THEN ReturnedType(c, "group")
                ELSE /\ Failed(c)
                     /\ lastError[c].code = "PARSE_ERROR"
                     /\ lastError[c].message = <<"Unexpected response format from Steam">>

\* C4 on decoded objects only: the same order holds whenever the decoder
\* delivered an object (with or without keys) rather than null.
C4_OrderOnObjects ==
    \A c \in Calls :
        (ReachedClassifier(c) /\ DecodedOf(c).status = "tree") =>
            LET t == TreeOf(c)
            IN  IF HasNoKeys(t)
                THEN Failed(c) /\ lastError[c].code = "EMPTY_RESPONSE"
                ELSE IF HasEnvelope(t)
                THEN /\ Failed(c)
                     /\ lastError[c].code \in {"PROFILE_NOT_FOUND", "GROUP_NOT_FOUND",
                        "PARSE_ERROR"}
                     /\ lastError[c].message # <<"Profile missing required fields">>
                     /\ lastError[c].message # <<"Unexpected response format from Steam">>
                ELSE IF HasProfileKey(t)
                THEN \/ pc[c] = "probe"
                     \/ ReturnedType(c, "profile")
                     \/ /\ Failed(c)
                        /\ lastError[c].message = <<"Profile missing required fields">>
                ELSE IF HasMemberListKey(t)
                THEN ReturnedType(c, "group")
                ELSE /\ Failed(c)
                     /\ lastError[c].code = "PARSE_ERROR"
                     /\ lastError[c].message = <<"Unexpected response format from Steam">>

\* C5 (as claimed): two attempts that evaluated the same response end with
\* the same tag, whatever their request URLs.
C5_TagIndependentOfUrl ==
    \A c1 \in Calls : \A c2 \in Calls :
        (Evaluated(c1) /\ Evaluated(c2) /\ resp[c1] = resp[c2]) =>
            ObservedTag(c1) = ObservedTag(c2)

\* a 2xx body of at least the minimum length without any XML marker
C5_NonXmlBody(r) ==
    /\ r.kind = "http" /\ r.ok
    /\ ~BodyIsEmpty(r.body.text)
    /\ ~BodyHasMarker(r.body.text)

\* C5 (amended): two attempts that evaluated the same response end with the
\* same tag whatever their request URLs, unless the body is a non-empty body
\* without XML marker (which is never decoded); each attempt has one tag.
C5_TagIndependentOfUrlWhenDecoded ==
    \A c1 \in Calls : \A c2 \in Calls :
        (Evaluated(c1) /\ Evaluated(c2) /\ resp[c1] = resp[c2]) =>
            /\ ObservedTag(c1) \in {"profile", "group", "PROFILE_NOT_FOUND", "GROUP_NOT_FOUND",
                                    "NETWORK_ERROR", "PARSE_ERROR", "EMPTY_RESPONSE", "none"}
            /\ (ObservedTag(c1) = ObservedTag(c2) \/ C5_NonXmlBody(resp[c1]))

\* C5 witness: the same decoded profile body answered a group-endpoint request
\* and a numeric-ID request, and both attempts are tagged profile
C5_Witness ==
    /\ Calls = {1, 2}
    /\ url[1] = GroupUrl /\ url[2] = ProfileIdUrl
    /\ ReachedClassifier(1) /\ Evaluated(2) /\ resp[1] = resp[2]
    /\ ObservedTag(1) = "profile" /\ ObservedTag(2) = "profile"

\* C6 (as claimed): the validator answers valid exactly when each of the four
\* fields is present and a non-empty sequence.
C6_ValidIffNonEmptySequences ==
    verdict # "none" =>
        (verdict = "valid" <=>
            /\ cand.kind = "object"
            /\ \A f \in {"steamID64", "steamID", "onlineState", "privacyState"} :
                  cand.obj[f].kind = "array" /\ Len(cand.obj[f].v) >= 1)

\* the eight required fields of MinimalSteamProfile (src/src/types.ts 5-14)
C7_RequiredFields == Fields \ {"customURL"}

\* C7 (as claimed): every returned profile carries all eight required fields,
\* each a one-element sequence.
C7_ReturnedProfileComplete ==
    \A c \in Calls :
        (ParseCall(c) /\ ReturnedType(c, "profile")) =>
            \A f \in C7_RequiredFields :
                outcome[c].data[f].kind = "array" /\ Len(outcome[c].data[f].v) = 1

\* the candidate is one the validator's rule rejects: not an object, or one of
\* the four fields falsy or not an array
C8_Rejected(p) ==
    \/ p.kind # "object"
    \/ \E f \in {"steamID64", "steamID", "onlineState", "privacyState"} :
          p.obj[f].kind # "array"

\* the attempt reached the profile branch of the classifier
C8_IsCandidate(c) ==
    /\ ReachedClassifier(c) /\ DecodedOf(c).status = "tree"
    /\ ~HasEnvelope(TreeOf(c)) /\ HasProfileKey(TreeOf(c))

\* C8: a candidate profile the validator rejects makes the attempt fail with
\* the PARSE_ERROR "Profile missing required fields"; no recovery step has run
\* for it, and no returned profile comes from a rejected candidate.
C8_RejectedCandidateFails ==
    \A c \in Calls :
        C8_IsCandidate(c) =>
            IF C8_Rejected(TreeOf(c).profile)
            THEN /\ Failed(c)
                 /\ lastError[c] = SteamAPIError(<<"Profile missing required fields">>,
                                                 "PARSE_ERROR")
                 /\ probes[c] = 0 /\ literals[c] = 0
            ELSE pc[c] = "probe" \/ ReturnedType(c, "profile")

\* C8 witness: a candidate without privacyState was rejected on the vanity endpoint
C8_Witness ==
    \E c \in Calls :
        /\ C8_IsCandidate(c) /\ url[c] = VanityUrl("3urobeat")
        /\ TreeOf(c).profile.kind = "object"
        /\ TreeOf(c).profile.obj["privacyState"] = Absent
        /\ Failed(c) /\ lastError[c].code = "PARSE_ERROR"

\* the attempt reached the error-message interpreter
C9_IsEnvelope(c) ==
    /\ ReachedClassifier(c) /\ DecodedOf(c).status = "tree"
    /\ HasEnvelope(TreeOf(c))
    /\ TreeOf(c).response.error.kind = "array" /\ Len(TreeOf(c).response.error.v) >= 1

C9_Message(c) == TreeOf(c).response.error.v[1]

C9_ProfilePhrase(m) ==
    \/ Includes(m, <<"profile could not be found">>)
    \/ Includes(m, <<"The specified ", "profile could not be found">>)
    \/ Includes(m, <<"Failed loading profile data">>)

\* C9 (as claimed): profile phrases give PROFILE_NOT_FOUND, else the group
\* phrase gives GROUP_NOT_FOUND, else a generic error carrying the original
\* message verbatim.
C9_InterpreterVerbatim ==
    \A c \in Calls :
        C9_IsEnvelope(c) =>
            /\ Failed(c)
            /\ IF C9_ProfilePhrase(C9_Message(c))
               THEN lastError[c].code = "PROFILE_NOT_FOUND"
               ELSE IF Includes(C9_Message(c), <<"group could not be found">>)
               THEN lastError[c].code = "GROUP_NOT_FOUND"
               ELSE /\ lastError[c].code = "PARSE_ERROR"
                    /\ lastError[c].message = C9_Message(c)

\* C9 (amended): as claimed, except that an empty message is replaced by
\* "Unknown error" in the generic error.
C9_InterpreterVerbatimOrUnknown ==
    \A c \in Calls :
        C9_IsEnvelope(c) =>
            /\ Failed(c)
            /\ IF C9_ProfilePhrase(C9_Message(c))
               THEN lastError[c].code = "PROFILE_NOT_FOUND"
               ELSE IF Includes(C9_Message(c), <<"group could not be found">>)
               THEN lastError[c].code = "GROUP_NOT_FOUND"
               ELSE /\ lastError[c].code = "PARSE_ERROR"
                    /\ lastError[c].message =
                          IF C9_Message(c) = <<>> THEN <<"Unknown error">> ELSE C9_Message(c)

\* C9 witness: a message with the group phrase and then a profile phrase was
\* interpreted as PROFILE_NOT_FOUND
C9_Witness ==
    \E c \in Calls :
        /\ C9_IsEnvelope(c)
        /\ C9_Message(c) = <<"group could not be found", "profile could not be found">>
        /\ Failed(c) /\ lastError[c].code = "PROFILE_NOT_FOUND"

\* the validated profile of the body is non-public and already has a customURL
C10_NonPublicWithCustomURL(c) ==
    /\ C8_IsCandidate(c) /\ ~C8_Rejected(TreeOf(c).profile)
    /\ TreeOf(c).profile.obj["privacyState"] # One("public")
    /\ TreeOf(c).profile.obj["customURL"] # Absent

\* C10 (as claimed): for a non-public profile whose decoded tree already
\* carries a customURL no recovery runs: no redirect probe is issued and the
\* returned customURL is the one of the body.
C10_NoRecoveryWhenCustomURLPresent ==
    \A c \in Calls :
        C10_NonPublicWithCustomURL(c) =>
            /\ probes[c] = 0
            /\ literals[c] = 0
            /\ ReturnedType(c, "profile") =>
                  outcome[c].data["customURL"] = TreeOf(c).profile.obj["customURL"]

\* the body's profile passed the validator
C11_ValidProfile(c) == C8_IsCandidate(c) /\ ~C8_Rejected(TreeOf(c).profile)

\* the text of the body's privacyState element
C11_PrivacyText(c) == TreeOf(c).profile.obj["privacyState"].v[1]

\* C11: for a validated profile whose privacyState is exactly "public" the
\* attempt returns the profile without any recovery step: no redirect probe,
\* no reading of the request URL, no request beyond the attempt's one fetch,
\* and the returned customURL is the body's (absent when the body had none),
\* whatever the request URL.
C11_PublicProfileNoRecovery ==
    \A c \in Calls :
        (C11_ValidProfile(c) /\ C11_PrivacyText(c) = <<"public">>) =>
            /\ ReturnedType(c, "profile")
            /\ probes[c] = 0
            /\ literals[c] = 0
            /\ fetches[c] = attempt[c]
            /\ outcome[c].data["customURL"] = TreeOf(c).profile.obj["customURL"]

\* C11 witness: a public profile without customURL was requested through the
\* vanity endpoint and returned with customURL still absent
C11_Witness ==
    \E c \in Calls :
        /\ C11_ValidProfile(c) /\ C11_PrivacyText(c) = <<"public">>
        /\ url[c] = VanityUrl("3urobeat")
        /\ TreeOf(c).profile.obj["customURL"] = Absent
        /\ ReturnedType(c, "profile")
        /\ outcome[c].data["customURL"] = Absent

\* the URL has the shape https://steamcommunity.com/id/{vanity}?xml=1
C12_VanityEndpoint(u) ==
    /\ Len(u) = 5
    /\ SubSeq(u, 1, 3) = Host
    /\ u[4] = <<"id">>
    /\ Len(u[5]) = 2 /\ u[5][2] = "?xml=1"

\* the body's validated profile is non-public and has no customURL
C12_NonPublicNoCustomURL(c) ==
    /\ C11_ValidProfile(c)
    /\ C11_PrivacyText(c) # <<"public">>
    /\ TreeOf(c).profile.obj["customURL"] = Absent

C13_NumericEndpoint(u) ==
    /\ Len(u) = 5
    /\ SubSeq(u, 1, 3) = Host
    /\ u[4] = <<"profiles">>

\* the redirect probe of a numeric-ID request for a profile without customURL
\* has been answered
C13_Probed(c) ==
    /\ ParseCall(c) /\ C13_NumericEndpoint(url[c])
    /\ probeAnswer[c].kind # "none"
    /\ profile[c]["customURL"] = Absent

\* the header text contains /id/
C13_ContainsIdPath(l) == \E i \in 2..(Len(l) - 1) : l[i] = <<"id">>

\* the final non-empty path segment of the header
C13_LastNonEmpty(l) ==
    LET idx == {i \in 1..Len(l) : l[i] # <<>>}
    IN  l[CHOOSE i \in idx : \A j \in idx : j <= i]

\* C13 (as claimed): the probe never fails the attempt; customURL becomes the
\* final non-empty path segment of the Location header when the header is
\* present and contains /id/, and stays absent otherwise.
C13_ProbeByIdSubstring ==
    \A c \in Calls :
        C13_Probed(c) =>
            /\ ReturnedType(c, "profile")
            /\ probes[c] = 1
            /\ fetches[c] = attempt[c]
            /\ outcome[c].data["customURL"] =
                  IF /\ probeAnswer[c].kind = "response" /\ probeAnswer[c].hasLocation
                     /\ C13_ContainsIdPath(probeAnswer[c].location)
                  THEN Arr(<<C13_LastNonEmpty(probeAnswer[c].location)>>)
                  ELSE Absent

\* the header text contains steamcommunity.com/id/
C13_ContainsSteamIdPath(l) ==
    \E i \in 1..(Len(l) - 2) :
        /\ l[i] # <<>> /\ l[i][Len(l[i])] = "steamcommunity.com"
        /\ l[i + 1] = <<"id">>

\* the text after the header's last slash, or before it when the header ends
\* with a slash
C13_Segment(l) == IF l[Len(l)] = <<>> THEN l[Len(l) - 1] ELSE l[Len(l)]

\* C13 (amended): the probe never fails the attempt and triggers no retry;
\* customURL becomes the header's last segment (one trailing slash dropped)
\* when the header is present, contains steamcommunity.com/id/ and that
\* segment is not empty; in every other case, a throwing probe included, the
\* profile is returned with customURL absent.
C13_ProbeNeverFails ==
    \A c \in Calls :
        C13_Probed(c) =>
            /\ ReturnedType(c, "profile")
            /\ probes[c] = 1
            /\ fetches[c] = attempt[c]
            /\ outcome[c].data["customURL"] =
                  IF /\ probeAnswer[c].kind = "response" /\ probeAnswer[c].hasLocation
                     /\ C13_ContainsSteamIdPath(probeAnswer[c].location)
                     /\ C13_Segment(probeAnswer[c].location) # <<>>
                  THEN Arr(<<C13_Segment(probeAnswer[c].location)>>)
                  ELSE Absent

\* C13 witness: the probe request threw on the first attempt and the private
\* profile was returned without customURL
C13_Witness ==
    \E c \in Calls :
        /\ C13_Probed(c) /\ probeAnswer[c].kind = "throw"
        /\ attempt[c] = 1 /\ sleeps[c] = <<>>
        /\ ReturnedType(c, "profile")
        /\ outcome[c].data["privacyState"] = One("private")
        /\ outcome[c].data["customURL"] = Absent

C15_RecoveryTouchesOnlyCustomURL ==
    \A c \in Calls :
        (ParseCall(c) /\ pc[c] = "done" /\ outcome[c].status = "returned") =>
            /\ outcome[c].type \in {"profile", "group"}
            /\ outcome[c].type = "profile" =>
                  /\ TreeOf(c).profile.kind = "object"
                  /\ \A f \in Fields \ {"customURL"} :
                        outcome[c].data[f] = TreeOf(c).profile.obj[f]
                  /\ \/ outcome[c].data["customURL"] = TreeOf(c).profile.obj["customURL"]
                     \/ /\ probes[c] + literals[c] >= 1
                        /\ outcome[c].data["customURL"].kind = "array"
                        /\ Len(outcome[c].data["customURL"].v) = 1
            /\ outcome[c].type = "group" =>
                  /\ TreeOf(c).memberList.kind = "object"
                  /\ outcome[c].value = TreeOf(c).memberList.groupID64
                  /\ probes[c] = 0 /\ literals[c] = 0

\* C15 witness: a private profile with a two-element vacBanned was returned
\* with the customURL found by the redirect probe and vacBanned as decoded
C15_Witness ==
    \E c \in Calls :
        /\ ParseCall(c) /\ ReturnedType(c, "profile")
        /\ TreeOf(c).profile.obj["customURL"] = Absent
        /\ TreeOf(c).profile.obj["vacBanned"] = Arr(<< <<"0">>, <<"1">> >>)
        /\ outcome[c].data["vacBanned"] = Arr(<< <<"0">>, <<"1">> >>)
        /\ outcome[c].data["customURL"] = One("redirvanity")

\* the attempt evaluated a 2xx body that passes the empty check and contains
\* none of <?xml, <profile, <memberList
C16_NonXmlBody(c) == Evaluated(c) /\ C5_NonXmlBody(resp[c])

\* the request URL targets a group endpoint: it contains /groups/ or memberslistxml
C16_GroupEndpoint(u) ==
    \/ \E i \in 2..(Len(u) - 1) : u[i] = <<"groups">>
    \/ \E i \in 1..Len(u) : \E j \in 1..Len(u[i]) : u[i][j] = "memberslistxml"

\* the body contains one of the group-not-found phrases: 'group could not be
\* found', 'group does not exist', 'Group', or '<html' together with 'error'
C16_GroupPhrase(t) ==
    \/ Includes(t, <<"group could not be found">>)
    \/ Includes(t, <<"group does not exist">>)
    \/ Includes(t, <<"Group">>)
    \/ (Includes(t, <<"<html">>) /\ Includes(t, <<"error">>))

\* C16: a non-empty body without any of the three XML markers is not decoded;
\* the attempt fails with GROUP_NOT_FOUND when the URL targets a group
\* endpoint or the body contains a group-not-found phrase, and otherwise with
\* the PARSE_ERROR 'Invalid XML response from Steam' (so also on a profile
\* endpoint when the body has no such phrase).
C16_PreParseShortCircuit ==
    \A c \in Calls :
        C16_NonXmlBody(c) =>
            /\ decodes[c] = 0
            /\ Failed(c)
            /\ IF C16_GroupEndpoint(url[c]) \/ C16_GroupPhrase(resp[c].body.text)
               THEN lastError[c] = SteamGroupNotFoundError(<<"group">>)
               ELSE lastError[c] = SteamAPIError(<<"Invalid XML response from Steam">>,
                                                 "PARSE_ERROR")

\* C16 witness: 'Service Unavailable' answered a numeric-ID profile request
\* and the attempt failed with PARSE_ERROR without decoding
C16_Witness ==
    \E c \in Calls :
        /\ C16_NonXmlBody(c) /\ url[c] = ProfileIdUrl
        /\ resp[c].body.text = <<"Service Unavailable">>
        /\ decodes[c] = 0
        /\ Failed(c) /\ lastError[c].code = "PARSE_ERROR"

\* the attempt evaluated a 2xx body that is empty: the empty string,
\* whitespace only, shorter than the minimum length, or a document the
\* decoder turns into nothing (null) or into a tree without keys
C17_EmptyBody(c) ==
    /\ Evaluated(c)
    /\ resp[c].kind = "http" /\ resp[c].ok
    /\ \/ BodyIsEmpty(resp[c].body.text)
       \/ /\ ReachedClassifier(c)
          /\ (DecodedOf(c).status = "null" \/ HasNoKeys(TreeOf(c)))

\* C17 (as claimed): an empty body makes the attempt fail with EMPTY_RESPONSE.
C17_EmptyBodyYieldsEmptyResponse ==
    \A c \in Calls :
        C17_EmptyBody(c) => (Failed(c) /\ lastError[c].code = "EMPTY_RESPONSE")

\* C17 on the body text alone: the empty string, a whitespace-only body and a
\* body under the minimum length fail with EMPTY_RESPONSE, and so does a
\* document decoded to an object without keys.
C17_EmptyTextYieldsEmptyResponse ==
    \A c \in Calls :
        (C17_EmptyBody(c) /\ (BodyIsEmpty(resp[c].body.text) \/ DecodedOf(c).status = "tree")) =>
            (Failed(c) /\ lastError[c].code = "EMPTY_RESPONSE")

\* the request URL is one of the two profile endpoints
C18_ProfileUrl(u) == C12_VanityEndpoint(u) \/ C13_NumericEndpoint(u)

\* C18 (as claimed): whatever the response body, no attempt of a profile
\* resolution (parseSteamXML on a numeric-ID or vanity URL) fails with
\* GROUP_NOT_FOUND.
C18_NoGroupNotFoundForProfile ==
    \A c \in Calls :
        (ParseCall(c) /\ C18_ProfileUrl(url[c]) /\ Failed(c)) =>
            lastError[c].code # "GROUP_NOT_FOUND"

SharedfileCheck(c) == op[c] = "sharedfile"

\* the page was read and contains none of the three failure phrases
C19_PageWithoutFailurePhrase(r) ==
    /\ r.kind = "http"
    /\ ~Includes(r.body.text, <<"There was a problem accessing the item">>)
    /\ ~Includes(r.body.text, <<"That item does not exist">>)
    /\ ~Includes(r.body.text, <<"error_message">>)

\* C19: validateSharedfile never throws and never retries: it issues one
\* fetch, no sleep, and resolves to false when the fetch or the body read
\* threw or the page contains one of the three failure phrases, and to true
\* for every other page, whatever the HTTP status.
C19_SharedfileFoldsToBoolean ==
    \A c \in Calls :
        SharedfileCheck(c) =>
            /\ fetches[c] <= 1
            /\ sleeps[c] = <<>> /\ invocations[c] = 0
            /\ outcome[c].status # "thrown"
            /\ pc[c] = "done" =>
                  /\ fetches[c] = 1
                  /\ outcome[c] = Returned("boolean",
                                           IF C19_PageWithoutFailurePhrase(resp[c])
                                           THEN <<"true">> ELSE <<"false">>,
                                           NoProfile)

\* C19 witness: a non-2xx page without failure phrase was answered with true
C19_Witness ==
    \E c \in Calls :
        /\ SharedfileCheck(c) /\ pc[c] = "done"
        /\ resp[c].kind = "http" /\ ~resp[c].ok
        /\ resp[c].body.text = <<"Service Unavailable">>
        /\ outcome[c].status = "returned" /\ outcome[c].value = <<"true">>

\* the attempt's fetch threw, its body read threw, or it was answered with a
\* non-2xx status
C20_FetchFailed(c) ==
    /\ Evaluated(c)
    /\ (resp[c].kind \in {"throw", "textthrow"} \/ ~resp[c].ok)

\* C20: a transport failure or a non-2xx status makes the attempt fail with
\* NETWORK_ERROR without decoding or classifying the body or running a
\* recovery step; the HTTP-status error, already a SteamAPIError, reaches
\* withRetry as thrown, and any other thrown value is wrapped once.
C20_NetworkError ==
    \A c \in Calls :
        C20_FetchFailed(c) =>
            /\ Failed(c)
            /\ lastError[c].code = "NETWORK_ERROR"
            /\ decodes[c] = 0 /\ probes[c] = 0 /\ literals[c] = 0
            /\ lastError[c].message =
                  IF resp[c].kind = "http"
                  THEN <<"HTTP ", "503">>
                  ELSE <<"Failed to fetch data from Steam: ">> \o resp[c].error.message

\* C20 witness: a 503 carrying a well-formed public profile failed with the
\* HTTP-status NETWORK_ERROR and the body was not decoded
C20_Witness ==
    \E c \in Calls :
        /\ C20_FetchFailed(c) /\ resp[c].kind = "http" /\ resp[c].body = GoodBody
        /\ Failed(c) /\ lastError[c] = SteamAPIError(<<"HTTP ", "503">>, "NETWORK_ERROR")
        /\ decodes[c] = 0

\* the attempt evaluated a 2xx body that is whitespace-only or shorter than
\* the minimum length
C29_ShortOrBlankBody(c) ==
    /\ Evaluated(c)
    /\ resp[c].kind = "http" /\ resp[c].ok
    /\ (IsBlank(resp[c].body.text) \/ TextLength(resp[c].body.text) < 10)

\* C29: a whitespace-only body or a body under 10 characters fails with
\* EMPTY_RESPONSE whatever the URL and the phrases in it, so a body that the
\* short-circuit turned into GROUP_NOT_FOUND has at least 10 characters and is
\* not blank.
C29_EmptyCheckFirst ==
    \A c \in Calls :
        /\ C29_ShortOrBlankBody(c) =>
              /\ Failed(c)
              /\ lastError[c] = SteamAPIError(
                                    <<"Steam returned an empty response for: ",
                                      "Steam returned empty response">>, "EMPTY_RESPONSE")
              /\ decodes[c] = 0
        /\ (Evaluated(c) /\ resp[c].kind = "http" /\ resp[c].ok /\ decodes[c] = 0
              /\ Failed(c) /\ lastError[c].code = "GROUP_NOT_FOUND") =>
              /\ TextLength(resp[c].body.text) >= 10
              /\ ~IsBlank(resp[c].body.text)

\* C29 witness: the 5-character body 'Group' answered a group-endpoint
\* request and the attempt failed with EMPTY_RESPONSE
C29_Witness ==
    \E c \in Calls :
        /\ C29_ShortOrBlankBody(c) /\ url[c] = GroupUrl
        /\ resp[c].body.text = <<"Group">>
        /\ Failed(c) /\ lastError[c].code = "EMPTY_RESPONSE"

\* C30: withRetry with maxRetries <= 0 never invokes the operation, never
\* sleeps and throws Error('Unknown error occurred'); with maxRetries >= 1
\* the operation is invoked at least once and at most maxRetries times.
C30_RetryBounds ==
    \A c \in Calls :
        (op[c] \in {"generic", "parse"}) =>
            IF maxRetries[c] <= 0
            THEN /\ invocations[c] = 0
                 /\ sleeps[c] = <<>>
                 /\ pc[c] \in {"idle", "done"}
                 /\ pc[c] = "done" =>
                       outcome[c] = Thrown(PlainError(<<"Unknown error occurred">>))
            ELSE /\ invocations[c] <= maxRetries[c]
                 /\ pc[c] # "idle" => invocations[c] >= 1
                 /\ Len(sleeps[c]) < maxRetries[c]

\* C30 witness: withRetry with maxRetries = -1 has thrown the generic error
\* without invoking the operation
C30_Witness ==
    \E c \in Calls :
        /\ Generic(c) /\ maxRetries[c] = -1 /\ pc[c] = "done"
        /\ invocations[c] = 0
        /\ outcome[c].status = "thrown"
        /\ outcome[c].error.message = <<"Unknown error occurred">>

\* the sleeps a call running alone has made after n failed attempts
C21_SoloSleeps(d, n) == [i \in 1..n |-> d * i]

\* what withRetry's lastError holds after the failures of h
C21_SoloLastError(h, n) ==
    IF n = 0 THEN NoError
    ELSE IF h[n].error.isError THEN h[n].error
    ELSE PlainError(h[n].error.message)

\* the state of a withRetry call that ran alone and whose operation settled
\* as h records
C21_GenericAsAlone(c) ==
    LET h == hist[c]
        n == Len(h)
        m == maxRetries[c]
    IN  /\ AllFailed(c, n - 1)
        /\ invocations[c] = attempt[c]
        /\ pc[c] = "operation" =>
              /\ attempt[c] = n + 1 /\ attempt[c] <= m
              /\ lastError[c] = C21_SoloLastError(h, n)
              /\ outcome[c] = Pending
              /\ sleeps[c] = C21_SoloSleeps(delay[c], n)
        /\ pc[c] = "sleep" =>
              /\ attempt[c] = n /\ n < m /\ ~h[n].ok
              /\ lastError[c] = C21_SoloLastError(h, n)
              /\ outcome[c] = Pending
              /\ sleeps[c] = C21_SoloSleeps(delay[c], n)
        /\ pc[c] = "done" =>
              /\ attempt[c] = n
              /\ IF h[n].ok
                 THEN /\ outcome[c] = Returned("value", h[n].value, NoProfile)
                      /\ lastError[c] = C21_SoloLastError(h, n - 1)
                      /\ sleeps[c] = C21_SoloSleeps(delay[c], n - 1)
                 ELSE /\ n = m
                      /\ outcome[c] = Thrown(C21_SoloLastError(h, n))
                      /\ lastError[c] = C21_SoloLastError(h, n)
                      /\ sleeps[c] = C21_SoloSleeps(delay[c], n - 1)

\* how the attempt of a parseSteamXML call ends on the answers the call
\* itself received
C21_OwnAttempt(c) ==
    LET a == AttemptStart(url[c], resp[c])
    IN  IF a.k = "probe" THEN AttemptAfterProbe(url[c], a.profile, probeAnswer[c]) ELSE a

\* the state of a parseSteamXML call that ran alone and received the answers
\* this call received
C21_ParseAsAlone(c) ==
    /\ invocations[c] = attempt[c] /\ fetches[c] = attempt[c]
    /\ pc[c] \in {"fetch", "probe"} =>
          /\ outcome[c] = Pending
          /\ sleeps[c] = C21_SoloSleeps(DefaultDelay, attempt[c] - 1)
    /\ pc[c] = "sleep" =>
          /\ C21_OwnAttempt(c).k = "throw"
          /\ lastError[c] = C21_OwnAttempt(c).error
          /\ outcome[c] = Pending
          /\ attempt[c] < DefaultMaxRetries
          /\ sleeps[c] = C21_SoloSleeps(DefaultDelay, attempt[c])
    /\ pc[c] = "done" =>
          /\ sleeps[c] = C21_SoloSleeps(DefaultDelay, attempt[c] - 1)
          /\ IF C21_OwnAttempt(c).k = "throw"
             THEN /\ attempt[c] = DefaultMaxRetries
                  /\ lastError[c] = C21_OwnAttempt(c).error
                  /\ outcome[c] = Thrown(C21_OwnAttempt(c).error)
             ELSE outcome[c] = C21_OwnAttempt(c).result

\* C21: with two calls interleaved at their awaits, the attempt counter, the
\* captured last error, the sleeps and the result of each call are those of
\* the call running alone on the answers it received itself.
C21_CallsIndependent ==
    \A c \in Calls :
        pc[c] # "idle" =>
            IF Generic(c) THEN C21_GenericAsAlone(c) ELSE C21_ParseAsAlone(c)

\* C21 witness: call 1 is in its second backoff sleep after two failures
\* while call 2, started alongside, has returned a profile from its first
\* attempt
C21_Witness ==
    /\ Cardinality(Calls) = 2
    /\ Generic(1) /\ pc[1] = "sleep" /\ attempt[1] = 2 /\ lastError[1] # NoError
    /\ ParseCall(2) /\ pc[2] = "done" /\ attempt[2] = 1
    /\ ReturnedType(2, "profile") /\ lastError[2] = NoError

\* the decoded tree after the attempt of call c: parsed.profile is the object
\* the attempt returned, with any customURL the recovery assigned to it
C26_TreeAfterRun(c) ==
    IF ReturnedType(c, "profile")
    THEN [DecodedOf(c) EXCEPT !.tree.profile.obj = outcome[c].data]
    ELSE DecodedOf(c)

\* lines 305-379 run again on a decoded tree, with the same request URL and
\* the same answer to the redirect probe
C26_SecondRun(u, d, pa) ==
    LET a == ClassifyParsed(u, d)
    IN  IF a.k = "probe" THEN AttemptAfterProbe(u, a.profile, pa) ELSE a

\* C26: the classify/validate/recover steps run a second time on the decoded
\* tree of an attempt, as the first run left it, with the same URL and the
\* same redirect answer, return a structurally equal result or throw the
\* same error.
C26_ClassificationIdempotent ==
    \A c \in Calls :
        (ReachedClassifier(c) /\ pc[c] \in {"sleep", "done"}) =>
            LET again == C26_SecondRun(url[c], C26_TreeAfterRun(c), probeAnswer[c])
            IN  IF Failed(c)
                THEN again.k = "throw" /\ again.error = lastError[c]
                ELSE again.k = "return" /\ again.result = outcome[c]

\* C26 witness: the first run assigned the customURL found by the redirect
\* probe to a profile that had another one
C26_Witness ==
    \E c \in Calls :
        /\ ReachedClassifier(c) /\ ReturnedType(c, "profile")
        /\ probes[c] = 1 /\ probeAnswer[c].hasLocation
        /\ TreeOf(c).profile.obj["customURL"].kind = "array"
        /\ outcome[c].data["customURL"] # TreeOf(c).profile.obj["customURL"]
        /\ outcome[c].data["customURL"].kind = "array"

Settled(c) == api[c] # "none" /\ pc[c] = "settled"

\* how the async operation of the API function settled: the error of
\* parseSteamXML, the not-found error of the type test, the error of the
\* extraction, or the value
OperationFailed(c) ==
    \/ outcome[c].status = "thrown"
    \/ outcome[c].type # (IF api[c] \in GroupApis THEN "group" ELSE "profile")
    \/ /\ api[c] = "groupUrlToGroupID64" /\ outcome[c].value = <<>>
    \/ /\ api[c] \in ProfileApis \ {"steamID64ToFullInfo", "customUrlToFullInfo"}
       /\ LET x == outcome[c].data[ApiField(api[c])]
          IN  x.kind = "absent" \/ x.v = <<>> \/ x.v[1] = <<>>

\* C22: with a callback, a successful operation invokes it with (null, result)
\* and a failed one with (message, null), the message non-empty, and the
\* returned promise does not reject: it resolves to the result, or to
\* undefined on failure. Without a callback nothing is invoked and the
\* returned promise is the operation's own: it rejects with the operation's
\* error.
C22_CallbackConvention ==
    \A c \in Calls :
        Settled(c) =>
            LET o == ApiOperation(api[c], outcome[c])
            IN  /\ (o.status = "thrown") = OperationFailed(c)
                /\ IF callback[c] = "none"
                   THEN /\ cbCalls[c] = <<>>
                        /\ promise[c] = o
                        /\ OperationFailed(c) =>
                              promise[c].status = "thrown" /\ promise[c].error.isError
                   ELSE /\ promise[c].status = "returned"
                        /\ cbCalls[c] # <<>>
                        /\ IF OperationFailed(c)
                           THEN /\ promise[c] = ResolvedUndefined
                                /\ cbCalls[c][1].resultIsNull /\ ~cbCalls[c][1].errIsNull
                                /\ cbCalls[c][1].err = o.error.message
                                /\ cbCalls[c][1].err # <<>>
                           ELSE /\ promise[c] = o
                                /\ cbCalls[c][1].errIsNull /\ ~cbCalls[c][1].resultIsNull
                                /\ cbCalls[c][1].result = o

\* C22 witness: a call with a callback whose operation failed: the callback
\* received the message and null, and the promise resolved to undefined
C22_Witness ==
    \E c \in Calls :
        /\ Settled(c) /\ callback[c] = "returns" /\ outcome[c].status = "thrown"
        /\ Len(cbCalls[c]) = 1 /\ cbCalls[c][1].resultIsNull
        /\ cbCalls[c][1].err = outcome[c].error.message
        /\ promise[c] = ResolvedUndefined

\* the last answer to call c was an error envelope with a profile-not-found
\* message
C23_ProfileNotFoundEnvelope(c) ==
    /\ ReachedClassifier(c) /\ DecodedOf(c).status = "tree" /\ HasEnvelope(TreeOf(c))
    /\ TreeOf(c).response.error.kind = "array"
    /\ \/ Includes(TreeOf(c).response.error.v[1], <<"profile could not be found">>)
       \/ Includes(TreeOf(c).response.error.v[1], <<"Failed loading profile data">>)

\* C23: a profile function called without a callback rejects with a
\* SteamProfileNotFoundError (a SteamAPIError with code PROFILE_NOT_FOUND)
\* when the service answered with a profile-not-found envelope or the parsed
\* result is not of type profile; an error of parseSteamXML reaches the
\* caller as it was raised.
C23_ProfileNotFoundReachesCaller ==
    \A c \in Calls :
        (Settled(c) /\ api[c] \in ProfileApis /\ callback[c] = "none") =>
            /\ ( \/ C23_ProfileNotFoundEnvelope(c)
                 \/ outcome[c].status = "returned" /\ outcome[c].type # "profile" ) =>
                  /\ promise[c].status = "thrown"
                  /\ promise[c].error.isError /\ promise[c].error.steam
                  /\ promise[c].error.code = "PROFILE_NOT_FOUND"
                  /\ SubSeq(promise[c].error.message, 1, 2)
                        = <<"The specified ", "profile could not be found">>
            /\ outcome[c].status = "thrown" => promise[c] = outcome[c]

\* C23 witness: steamID64ToFullInfo without a callback, answered with a
\* group document, rejected with PROFILE_NOT_FOUND for its identifier
C23_Witness ==
    \E c \in Calls :
        /\ Settled(c) /\ api[c] = "steamID64ToFullInfo" /\ callback[c] = "none"
        /\ outcome[c].status = "returned" /\ outcome[c].type = "group"
        /\ promise[c] = Thrown(SteamProfileNotFoundError(<<"76561198260031749">>))

\* the last answer to call c was a non-blank body of at least 10 characters
\* without an XML marker
C24_NonXmlBody(c) ==
    /\ Evaluated(c) /\ resp[c].kind = "http" /\ resp[c].ok
    /\ ~IsBlank(resp[c].body.text) /\ TextLength(resp[c].body.text) >= 10
    /\ ~BodyHasMarker(resp[c].body.text)

\* the last answer to call c was an error envelope with the group-not-found
\* message and no profile-not-found message
C24_GroupNotFoundEnvelope(c) ==
    /\ ReachedClassifier(c) /\ DecodedOf(c).status = "tree" /\ HasEnvelope(TreeOf(c))
    /\ TreeOf(c).response.error.kind = "array"
    /\ Includes(TreeOf(c).response.error.v[1], <<"group could not be found">>)
    /\ ~C23_ProfileNotFoundEnvelope(c)

\* C24 as claimed: every body of at least 10 characters without an XML marker
\* makes a group function reject with a SteamGroupNotFoundError.
C24_GroupNotFoundForLongNonXmlBody ==
    \A c \in Calls :
        ( /\ Settled(c) /\ api[c] \in GroupApis /\ callback[c] = "none"
          /\ Evaluated(c) /\ resp[c].kind = "http" /\ resp[c].ok
          /\ TextLength(resp[c].body.text) >= 10
          /\ ~BodyHasMarker(resp[c].body.text) ) =>
            /\ promise[c].status = "thrown"
            /\ promise[c].error.code = "GROUP_NOT_FOUND"

\* C24 (amended): a group function called without a callback rejects with a
\* SteamGroupNotFoundError when the group endpoint answered with a non-XML
\* body of at least the minimum length that is not whitespace only, with a
\* group-not-found envelope, or with a document whose parsed type is not
\* group; it resolves to a value only when the parsed result is of type group.
C24_GroupNotFoundReachesCaller ==
    \A c \in Calls :
        (Settled(c) /\ api[c] \in GroupApis) =>
            /\ ( /\ callback[c] = "none"
                 /\ \/ C24_NonXmlBody(c)
                    \/ C24_GroupNotFoundEnvelope(c)
                    \/ outcome[c].status = "returned" /\ outcome[c].type # "group" ) =>
                  /\ promise[c].status = "thrown"
                  /\ promise[c].error.isError /\ promise[c].error.steam
                  /\ promise[c].error.code = "GROUP_NOT_FOUND"
                  /\ SubSeq(promise[c].error.message, 1, 2)
                        = <<"The specified ", "group could not be found">>
            /\ (promise[c].status = "returned" /\ promise[c] # ResolvedUndefined) =>
                  outcome[c].status = "returned" /\ outcome[c].type = "group"

\* C24 witness: groupUrlToGroupID64 without a callback, answered on its last
\* attempt with the body 'Service Unavailable', rejected with GROUP_NOT_FOUND
C24_Witness ==
    \E c \in Calls :
        /\ Settled(c) /\ api[c] = "groupUrlToGroupID64" /\ callback[c] = "none"
        /\ C24_NonXmlBody(c) /\ resp[c].body.text = <<"Service Unavailable">>
        /\ promise[c].status = "thrown" /\ promise[c].error.code = "GROUP_NOT_FOUND"

\* the functions that extract one string from a profile
C25_Extracting ==
    {"steamID64ToCustomUrl", "steamID64ToProfileName", "customUrlToSteamID64",
     "customUrlToProfileName"}

\* the field of the returned profile is missing, or its first item is ''
C25_NothingToExtract(c) ==
    LET x == outcome[c].data[ApiField(api[c])]
    IN  x.kind = "absent" \/ x.v = <<>> \/ x.v[1] = <<>>

\* C25: when an extracting profile function resolves, its result is the
\* non-empty first item of the field; when the returned profile has no value
\* or an empty value for the field, the call rejects with the PARSE_ERROR
\* 'Failed to resolve ...' of the function.
C25_ResolvesNonEmpty ==
    \A c \in Calls :
        (Settled(c) /\ api[c] \in C25_Extracting /\ callback[c] = "none") =>
            /\ promise[c].status = "returned" =>
                  /\ promise[c].type = "string"
                  /\ promise[c].value # <<>>
                  /\ outcome[c].status = "returned" /\ outcome[c].type = "profile"
                  /\ promise[c].value = outcome[c].data[ApiField(api[c])].v[1]
            /\ ( /\ outcome[c].status = "returned" /\ outcome[c].type = "profile"
                 /\ C25_NothingToExtract(c) ) =>
                  /\ promise[c].status = "thrown"
                  /\ promise[c].error.code = "PARSE_ERROR"
                  /\ promise[c].error.message =
                        (CASE api[c] = "steamID64ToCustomUrl" ->
                                <<"Failed to resolve customURL">>
                           [] api[c] = "customUrlToSteamID64" ->
                                <<"Failed to resolve steamID64">>
                           [] OTHER -> <<"Failed to resolve profile name">>)

\* C25 witness: steamID64ToCustomUrl on a private profile whose redirect
\* probe found nothing rejected with 'Failed to resolve customURL'
C25_Witness ==
    \E c \in Calls :
        /\ Settled(c) /\ api[c] = "steamID64ToCustomUrl" /\ callback[c] = "none"
        /\ probes[c] = 1 /\ ~probeAnswer[c].hasLocation
        /\ outcome[c].status = "returned" /\ outcome[c].data["customURL"] = Absent
        /\ promise[c] = Thrown(SteamAPIError(<<"Failed to resolve customURL">>, "PARSE_ERROR"))

\* C28: a supplied callback is invoked exactly once per call, whatever the
\* outcome of the operation and whatever the callback does.
C28_CallbackInvokedOnce ==
    \A c \in Calls :
        (Settled(c) /\ callback[c] # "none") => Len(cbCalls[c]) = 1

====
